---- MODULE Spec2Model ----
(***************************************************************************)
(* Emergency Reparent (EmergencyReparenter.ReparentShard) of a shard: the  *)
(* orchestrator, the selection policy and the reparent executor, with the  *)
(* topology lock, the tablet agents and the position algebra as            *)
(* collaborators.                                                          *)
(***************************************************************************)
EXTENDS Integers, FiniteSets, Sequences, TLC

\* ------------------------------------------------------------------------
\* Bounds and universes
\* ------------------------------------------------------------------------
\* Length of the longest change log a tablet can have applied.
MaxGtid == 2

Tablets == {"t1", "t2", "t3"}
Callers == {"c1", "c2"}
Cells == {"z1", "z2"}
None == "none"

\* ------------------------------------------------------------------------
\* Position algebra: a position is the set of change records applied.
\* ------------------------------------------------------------------------
\* The change log of the lineage every healthy tablet follows, and one
\* diverged log that shares only the first record with it.
Fork == {1, MaxGtid + 1}
Positions == {1..k : k \in 1..MaxGtid} \cup {Fork}

AtLeast(a, b) == b \subseteq a

\* ------------------------------------------------------------------------
\* Promotion rules, best first.
\* ------------------------------------------------------------------------
MustPromoteRule == "MUST"
PreferPromoteRule == "PREFER"
NeutralPromoteRule == "NEUTRAL"
PreferNotPromoteRule == "PREFER_NOT"
MustNotPromoteRule == "MUST_NOT"

RuleRank(r) ==
  CASE r = MustPromoteRule -> 0
    [] r = PreferPromoteRule -> 1
    [] r = NeutralPromoteRule -> 2
    [] r = PreferNotPromoteRule -> 3
    [] OTHER -> 4

\* ------------------------------------------------------------------------
\* State
\* ------------------------------------------------------------------------
VARIABLES
  tablets,            \* the shard's tablets: alias -> attributes
  shardPrimary,       \* ShardInfo.PrimaryAlias, or None
  lock,               \* the caller holding the shard lock in the topology store, or None
  run,                \* caller -> the state of its ReparentShard call
  ersCounter,
  ersSuccessCounter,
  ersFailureCounter

vars == <<tablets, shardPrimary, lock, run, ersCounter, ersSuccessCounter, ersFailureCounter>>

TabletMap == DOMAIN tablets
PromotionRule(t) == tablets[t].rule
Cell(t) == tablets[t].cell

\* EmergencyReparentOptions
NoOptions == [NewPrimaryAlias |-> None, IgnoreReplicas |-> {}, PreventCrossCellPromotion |-> FALSE]

NoTasks == [t \in Tablets |-> "none"]

\* The state of one call before LockShard.
InitRun(o) ==
  [ pc |-> "LockShard", opts |-> o, err |-> "nil",
    locked |-> FALSE, unlocks |-> 0, counted |-> "none", lostAt |-> None,
    prevPrimary |-> None, tabletMap |-> {}, statusMap |-> {}, primaryStatusMap |-> {},
    validCandidates |-> {}, head |-> None, intermediateSource |-> None, isIdeal |-> FALSE,
    validReplacementCandidates |-> {}, betterCandidate |-> None, caughtUp |-> {},
    newPrimary |-> None,
    constraintFailure |-> FALSE, rejected |-> None, evNewPrimary |-> None,
    \* reparentReplicas
    phase |-> "none", rrpc |-> "idle", rrPrimary |-> None, primaryFailed |-> FALSE, task |-> NoTasks, numReplicas |-> 0,
    rrErr |-> "nil", setMasterCalls |-> [t \in Tablets |-> 0],
    listRead |-> FALSE, listReadUnfinished |-> {},
    replicasStartedReplication |-> {}, recErrors |-> 0,
    replSuccess |-> FALSE, allReplicasDone |-> FALSE, replCancelled |-> FALSE,
    \* the RPCs issued so far
    relayWaits |-> {}, relayFailed |-> {}, setMasters |-> {}, catchUps |-> {}, promotes |-> <<>>, journals |-> {},
    masterPositions |-> {}, journalCalls |-> 0, promoteFailed |-> FALSE, lockHeldAtPromote |-> TRUE,
    \* the steps of the call executed so far, in order
    steps |-> <<>> ]

\* ------------------------------------------------------------------------
\* Errors
\* ------------------------------------------------------------------------
ErrSplitBrain == "FAILED_PRECONDITION: split brain detected"
ErrNoCandidates == "FAILED_PRECONDITION: no valid candidates"
ErrRequestedErrant == "FAILED_PRECONDITION: requested primary elect has errant GTIDs"
ErrInternal == "INTERNAL: candidate not found in the tablet map"
ErrNotInList == "ABORTED: requested candidate is not in valid candidates list"
ErrConstraint == "ABORTED: constraint failure"
ErrUndo == "ABORTED: error in undoing promotion, constraint failure"
ErrNoPrevPrimary == "ABORTED: could not undo promotion, shard record has no primary"
ErrLockLost == "lost topology lock, aborting"

\* Variant: the deferred closure of the constraint failure is left out.
BodyReturn_NoRewrite(r, e) ==
  [r EXCEPT !.pc = "return", !.err = e]

\* reparentShardLocked returns e: the closure deferred at the constraint
\* failure rewrites the outgoing error.
BodyReturn(r, e) ==
  [r EXCEPT !.pc = "return",
            !.err = IF r.constraintFailure
                      THEN (IF e # "nil" THEN ErrUndo ELSE ErrConstraint)
                      ELSE e]

\* ------------------------------------------------------------------------
\* Candidate filter
\* ------------------------------------------------------------------------
\* Tablets whose stop-replication status shows errant change records.
HasErrant(t) == tablets[t].kind = "errant"

FindValidEmergencyReparentCandidates(statusMap, primaryStatusMap) ==
  {t \in statusMap : ~HasErrant(t)} \cup primaryStatusMap

IneligibleTypes == {"DRAINED", "BACKUP", "RESTORE"}

restrictValidCandidates(validCandidates) ==
  {t \in validCandidates : tablets[t].type \notin IneligibleTypes}

\* ------------------------------------------------------------------------
\* Selection policy
\* ------------------------------------------------------------------------
\* a sorts strictly before b: more advanced, then in the ideal cell, then the
\* better promotion rule.
SortsBefore(a, b, idealCell) ==
  LET pa == tablets[a].pos
      pb == tablets[b].pos
      ia == (idealCell # "" /\ Cell(a) = idealCell)
      ib == (idealCell # "" /\ Cell(b) = idealCell)
  IN  \/ AtLeast(pa, pb) /\ ~AtLeast(pb, pa)
      \/ pa = pb /\ ia /\ ~ib
      \/ pa = pb /\ ia = ib /\ RuleRank(PromotionRule(a)) < RuleRank(PromotionRule(b))

\* The tablets sortTabletsForERS can put first: no other sorts before them.
sortTabletsForERS(validTablets, idealCell) ==
  {h \in validTablets : \A x \in validTablets : ~SortsBefore(x, h, idealCell)}

\* Variant: the requested primary is looked up before the split-brain check.
findMostAdvanced_RequestedFirst(head, validCandidates, opts) ==
  IF opts.NewPrimaryAlias # None /\ opts.NewPrimaryAlias \notin validCandidates
    THEN [err |-> ErrRequestedErrant, tablet |-> None]
  ELSE IF \E v \in validCandidates : ~AtLeast(tablets[head].pos, tablets[v].pos)
    THEN [err |-> ErrSplitBrain, tablet |-> None]
  ELSE IF opts.NewPrimaryAlias # None
          /\ AtLeast(tablets[opts.NewPrimaryAlias].pos, tablets[head].pos)
    THEN [err |-> "nil", tablet |-> opts.NewPrimaryAlias]
  ELSE [err |-> "nil", tablet |-> head]

\* Variant: a requested primary that is a valid candidate is the intermediate
\* source whatever its position.
findMostAdvanced_RequestedAlways(head, validCandidates, opts) ==
  IF \E v \in validCandidates : ~AtLeast(tablets[head].pos, tablets[v].pos)
    THEN [err |-> ErrSplitBrain, tablet |-> None]
  ELSE IF opts.NewPrimaryAlias # None
    THEN IF opts.NewPrimaryAlias \notin validCandidates
           THEN [err |-> ErrRequestedErrant, tablet |-> None]
         ELSE [err |-> "nil", tablet |-> opts.NewPrimaryAlias]
  ELSE [err |-> "nil", tablet |-> head]

\* Variant: a requested primary that is not a valid candidate is passed over
\* and the head is the intermediate source.
findMostAdvanced_RequestedFallsBack(head, validCandidates, opts) ==
  IF \E v \in validCandidates : ~AtLeast(tablets[head].pos, tablets[v].pos)
    THEN [err |-> ErrSplitBrain, tablet |-> None]
  ELSE IF opts.NewPrimaryAlias # None /\ opts.NewPrimaryAlias \in validCandidates
          /\ AtLeast(tablets[opts.NewPrimaryAlias].pos, tablets[head].pos)
    THEN [err |-> "nil", tablet |-> opts.NewPrimaryAlias]
  ELSE [err |-> "nil", tablet |-> head]

\* findMostAdvanced once the sort has put head first.
findMostAdvanced(head, validCandidates, opts) ==
  IF \E v \in validCandidates : ~AtLeast(tablets[head].pos, tablets[v].pos)
    THEN [err |-> ErrSplitBrain, tablet |-> None]
  ELSE IF opts.NewPrimaryAlias # None
    THEN IF opts.NewPrimaryAlias \notin validCandidates
           THEN [err |-> ErrRequestedErrant, tablet |-> None]
         ELSE IF AtLeast(tablets[opts.NewPrimaryAlias].pos, tablets[head].pos)
           THEN [err |-> "nil", tablet |-> opts.NewPrimaryAlias]
         ELSE [err |-> "nil", tablet |-> head]
  ELSE [err |-> "nil", tablet |-> head]

findPossibleCandidateFromListWithRestrictions(newPrimary, prevPrimary, possibleCandidates, checkEqualPrimary, checkSameCell) ==
  {x \in possibleCandidates :
     /\ checkEqualPrimary => x = newPrimary
     /\ (checkSameCell /\ prevPrimary # None) => Cell(prevPrimary) = Cell(x)}

\* Variant: the requested primary is returned without looking for it in the
\* candidate list.
identifyPrimaryCandidate_RequestUnchecked(newPrimary, prevPrimary, validCandidates, opts) ==
  IF opts.NewPrimaryAlias # None
    THEN IF opts.NewPrimaryAlias \notin TabletMap THEN {ErrInternal}
         ELSE {opts.NewPrimaryAlias}
  ELSE
    LET preferredCandidates ==
          {x \in validCandidates : PromotionRule(x) \in {MustPromoteRule, PreferPromoteRule}}
        neutralReplicas == {x \in validCandidates : PromotionRule(x) = NeutralPromoteRule}
        F(list, eq, same) ==
          findPossibleCandidateFromListWithRestrictions(newPrimary, prevPrimary, list, eq, same)
        X(s) == IF opts.PreventCrossCellPromotion THEN {} ELSE s
        steps == << F(preferredCandidates, TRUE, TRUE), F(preferredCandidates, FALSE, TRUE),
                    X(F(preferredCandidates, TRUE, FALSE)), X(F(preferredCandidates, FALSE, FALSE)),
                    F(neutralReplicas, TRUE, TRUE), F(neutralReplicas, FALSE, TRUE),
                    X(F(neutralReplicas, TRUE, FALSE)), X(F(neutralReplicas, FALSE, FALSE)),
                    {newPrimary} >>
        first == CHOOSE i \in 1..Len(steps) : steps[i] # {} /\ \A j \in 1..(i - 1) : steps[j] = {}
    IN  steps[first]

\* Variant: the neutral tablets are looked at before the preferred ones.
identifyPrimaryCandidate_NeutralFirst(newPrimary, prevPrimary, validCandidates, opts) ==
  IF opts.NewPrimaryAlias # None
    THEN IF opts.NewPrimaryAlias \notin TabletMap THEN {ErrInternal}
         ELSE IF opts.NewPrimaryAlias \in validCandidates THEN {opts.NewPrimaryAlias}
         ELSE {ErrNotInList}
  ELSE
    LET preferredCandidates ==
          {x \in validCandidates : PromotionRule(x) \in {MustPromoteRule, PreferPromoteRule}}
        neutralReplicas == {x \in validCandidates : PromotionRule(x) = NeutralPromoteRule}
        F(list, eq, same) ==
          findPossibleCandidateFromListWithRestrictions(newPrimary, prevPrimary, list, eq, same)
        X(s) == IF opts.PreventCrossCellPromotion THEN {} ELSE s
        steps == << F(neutralReplicas, TRUE, TRUE), F(neutralReplicas, FALSE, TRUE),
                    X(F(neutralReplicas, TRUE, FALSE)), X(F(neutralReplicas, FALSE, FALSE)),
                    F(preferredCandidates, TRUE, TRUE), F(preferredCandidates, FALSE, TRUE),
                    X(F(preferredCandidates, TRUE, FALSE)), X(F(preferredCandidates, FALSE, FALSE)),
                    {newPrimary} >>
        first == CHOOSE i \in 1..Len(steps) : steps[i] # {} /\ \A j \in 1..(i - 1) : steps[j] = {}
    IN  steps[first]

\* The results identifyPrimaryCandidate can return: tablets, or an error.
identifyPrimaryCandidate(newPrimary, prevPrimary, validCandidates, opts) ==
  IF opts.NewPrimaryAlias # None
    THEN IF opts.NewPrimaryAlias \notin TabletMap THEN {ErrInternal}
         ELSE IF opts.NewPrimaryAlias \in validCandidates THEN {opts.NewPrimaryAlias}
         ELSE {ErrNotInList}
  ELSE
    LET preferredCandidates ==
          {x \in validCandidates : PromotionRule(x) \in {MustPromoteRule, PreferPromoteRule}}
        neutralReplicas == {x \in validCandidates : PromotionRule(x) = NeutralPromoteRule}
        F(list, eq, same) ==
          findPossibleCandidateFromListWithRestrictions(newPrimary, prevPrimary, list, eq, same)
        X(s) == IF opts.PreventCrossCellPromotion THEN {} ELSE s
        steps == << F(preferredCandidates, TRUE, TRUE), F(preferredCandidates, FALSE, TRUE),
                    X(F(preferredCandidates, TRUE, FALSE)), X(F(preferredCandidates, FALSE, FALSE)),
                    F(neutralReplicas, TRUE, TRUE), F(neutralReplicas, FALSE, TRUE),
                    X(F(neutralReplicas, TRUE, FALSE)), X(F(neutralReplicas, FALSE, FALSE)),
                    {newPrimary} >>
        first == CHOOSE i \in 1..Len(steps) : steps[i] # {} /\ \A j \in 1..(i - 1) : steps[j] = {}
    IN  steps[first]

\* Variant: the promotion rule is not checked.
checkIfConstraintsSatisfied_NoPromotionRule(newPrimary, prevPrimary, opts) ==
  ~(opts.PreventCrossCellPromotion /\ prevPrimary # None /\ Cell(newPrimary) # Cell(prevPrimary))

\* Variant: the cell is not checked.
checkIfConstraintsSatisfied_NoCell(newPrimary, prevPrimary, opts) ==
  PromotionRule(newPrimary) # MustNotPromoteRule

\* TRUE when no constraint fails.
checkIfConstraintsSatisfied(newPrimary, prevPrimary, opts) ==
  IF opts.PreventCrossCellPromotion /\ prevPrimary # None /\ Cell(newPrimary) # Cell(prevPrimary)
    THEN FALSE
  ELSE IF PromotionRule(newPrimary) = MustNotPromoteRule THEN FALSE
  ELSE TRUE

\* ------------------------------------------------------------------------
\* Orchestrator: ReparentShard and reparentShardLocked, one action per step
\* ------------------------------------------------------------------------
\* The call of c moves to r; a step that is left is appended to the steps
\* executed.
Set(c, r) ==
  run' = [run EXCEPT ![c] = IF r.pc # run[c].pc
                              THEN [r EXCEPT !.steps = Append(@, run[c].pc)]
                              ELSE r]

cluster == <<tablets, shardPrimary>>
counters == <<ersCounter, ersSuccessCounter, ersFailureCounter>>

\* The steps up to and including the second lock check.
EarlyPcs == {"GetShard", "GetTablet", "GetTabletMapForShard", "StopReplicationAndBuildStatusMaps",
             "CheckShardLocked1", "FindValidEmergencyReparentCandidates",
             "waitForAllRelayLogsToApply", "findMostAdvanced", "intermediateCandidateIsIdeal",
             "CheckShardLocked2"}

\* Variant: the error of LockShard is not looked at.
ReparentShard_IgnoreLockError(c) ==
  /\ run[c].pc = "LockShard"
  /\ lock' = IF lock = None THEN c ELSE lock
  /\ Set(c, [run[c] EXCEPT !.pc = "GetShard", !.locked = TRUE])
  /\ UNCHANGED <<cluster, counters>>

\* LockShard and the deferred unlock: the call proceeds only with the lock.
ReparentShard(c) ==
  /\ run[c].pc = "LockShard"
  /\ \E ok \in (IF lock = None THEN BOOLEAN ELSE {FALSE}) :
       IF ok
         THEN /\ lock' = c
              /\ Set(c, [run[c] EXCEPT !.pc = "GetShard", !.locked = TRUE])
         ELSE /\ lock' = lock
              /\ Set(c, [run[c] EXCEPT !.pc = "done", !.err = "LockShard failed"])
  /\ UNCHANGED <<cluster, counters>>

\* The topology store drops the lock of a caller that still runs.
LoseLock(c) ==
  /\ lock = c
  /\ run[c].pc \notin {"LockShard", "done"}
  /\ lock' = None
  /\ Set(c, [run[c] EXCEPT !.lostAt = IF run[c].pc \in EarlyPcs THEN "early" ELSE "late"])
  /\ UNCHANGED <<cluster, counters>>

GetShard(c) ==
  /\ run[c].pc = "GetShard"
  /\ ersCounter' = ersCounter + 1
  /\ \E ok \in BOOLEAN :
       IF ok
         THEN Set(c, [run[c] EXCEPT !.pc = IF shardPrimary # None THEN "GetTablet"
                                           ELSE "GetTabletMapForShard"])
         ELSE Set(c, BodyReturn(run[c], "GetShard failed"))
  /\ UNCHANGED <<cluster, lock, ersSuccessCounter, ersFailureCounter>>

GetTablet(c) ==
  /\ run[c].pc = "GetTablet"
  /\ \E ok \in BOOLEAN :
       IF ok
         THEN Set(c, [run[c] EXCEPT !.pc = "GetTabletMapForShard", !.prevPrimary = shardPrimary])
         ELSE Set(c, BodyReturn(run[c], "GetTablet failed"))
  /\ UNCHANGED <<cluster, lock, counters>>

GetTabletMapForShard(c) ==
  /\ run[c].pc = "GetTabletMapForShard"
  /\ \E ok \in BOOLEAN :
       IF ok
         THEN Set(c, [run[c] EXCEPT !.pc = "StopReplicationAndBuildStatusMaps",
                                    !.tabletMap = TabletMap])
         ELSE Set(c, BodyReturn(run[c], "failed to get tablet map"))
  /\ UNCHANGED <<cluster, lock, counters>>

\* The fan-out of stop-replication: a replica enters the status map, a
\* tablet that answers as a primary the primary status map.
StopReplicationAndBuildStatusMaps(c) ==
  /\ run[c].pc = "StopReplicationAndBuildStatusMaps"
  /\ LET asked == run[c].tabletMap \ run[c].opts.IgnoreReplicas
     IN  \E ok \in BOOLEAN :
           IF ok
             THEN Set(c, [run[c] EXCEPT
                    !.pc = "CheckShardLocked1",
                    !.statusMap = {t \in asked : tablets[t].kind \in {"replica", "errant"}},
                    !.primaryStatusMap = {t \in asked : tablets[t].kind = "primary"}])
             ELSE Set(c, BodyReturn(run[c], "failed to stop replication and build status maps"))
  /\ UNCHANGED <<cluster, lock, counters>>

\* The lock check after the stop-replication fan-out.
CheckShardLockedAfterStop(c) ==
  /\ run[c].pc = "CheckShardLocked1"
  /\ IF lock = c
       THEN Set(c, [run[c] EXCEPT !.pc = "FindValidEmergencyReparentCandidates"])
       ELSE Set(c, BodyReturn(run[c], ErrLockLost))
  /\ UNCHANGED <<cluster, lock, counters>>

\* Variant: the empty candidate set is not checked.
FindValidCandidatesStep_NoEmptyCheck(c) ==
  /\ run[c].pc = "FindValidEmergencyReparentCandidates"
  /\ LET valid == restrictValidCandidates(
                    FindValidEmergencyReparentCandidates(run[c].statusMap, run[c].primaryStatusMap))
     IN  Set(c, [run[c] EXCEPT !.pc = "waitForAllRelayLogsToApply", !.validCandidates = valid])
  /\ UNCHANGED <<cluster, lock, counters>>

FindValidCandidatesStep(c) ==
  /\ run[c].pc = "FindValidEmergencyReparentCandidates"
  /\ LET valid == restrictValidCandidates(
                    FindValidEmergencyReparentCandidates(run[c].statusMap, run[c].primaryStatusMap))
     IN  IF valid = {}
           THEN Set(c, BodyReturn(run[c], ErrNoCandidates))
           ELSE Set(c, [run[c] EXCEPT !.pc = "waitForAllRelayLogsToApply",
                                      !.validCandidates = valid])
  /\ UNCHANGED <<cluster, lock, counters>>

\* Variant: the error of the relay-log wait is kept but the run goes on.
waitForAllRelayLogsToApply_NoReturn(c) ==
  /\ run[c].pc = "waitForAllRelayLogsToApply"
  /\ LET waiters == run[c].validCandidates \cap run[c].statusMap
     IN  \E ok \in (IF waiters = {} THEN {TRUE} ELSE BOOLEAN) :
           Set(c, [run[c] EXCEPT !.pc = "findMostAdvanced", !.relayWaits = waiters,
                                 !.err = IF ok THEN "nil" ELSE "could not apply all relay logs"])
  /\ UNCHANGED <<cluster, lock, counters>>

\* Variant: a wait is issued for every valid candidate, the ones without a
\* stop-replication status included.
waitForAllRelayLogsToApply_AllCandidates(c) ==
  /\ run[c].pc = "waitForAllRelayLogsToApply"
  /\ LET waiters == run[c].validCandidates
     IN  \E failed \in SUBSET waiters :
           IF failed = {}
             THEN Set(c, [run[c] EXCEPT !.pc = "findMostAdvanced", !.relayWaits = waiters])
             ELSE Set(c, [BodyReturn(run[c], "could not apply all relay logs")
                            EXCEPT !.relayWaits = waiters, !.relayFailed = failed])
  /\ UNCHANGED <<cluster, lock, counters>>

\* One WaitForRelayLogsToApply per valid candidate that has a stop-replication
\* status; the error group requires every one of them to succeed.
waitForAllRelayLogsToApply(c) ==
  /\ run[c].pc = "waitForAllRelayLogsToApply"
  /\ LET waiters == run[c].validCandidates \cap run[c].statusMap
     IN  \E failed \in SUBSET waiters :
           IF failed = {}
             THEN Set(c, [run[c] EXCEPT !.pc = "findMostAdvanced", !.relayWaits = waiters])
             ELSE Set(c, [BodyReturn(run[c], "could not apply all relay logs")
                            EXCEPT !.relayWaits = waiters, !.relayFailed = failed])
  /\ UNCHANGED <<cluster, lock, counters>>

FindMostAdvancedStep(c) ==
  /\ run[c].pc = "findMostAdvanced"
  /\ LET idealCell == IF run[c].prevPrimary # None THEN Cell(run[c].prevPrimary) ELSE ""
     IN  \E head \in sortTabletsForERS(run[c].validCandidates, idealCell) :
           LET res == findMostAdvanced(head, run[c].validCandidates, run[c].opts)
           IN  IF res.err # "nil"
                 THEN Set(c, [BodyReturn(run[c], res.err) EXCEPT !.head = head])
                 ELSE Set(c, [run[c] EXCEPT !.pc = "intermediateCandidateIsIdeal",
                                            !.head = head, !.intermediateSource = res.tablet])
  /\ UNCHANGED <<cluster, lock, counters>>

IsErr(x) == x \notin Tablets

\* Variant: an intermediate source that must not be promoted is not ideal.
intermediateCandidateIsIdeal_RuleChecked(c) ==
  /\ run[c].pc = "intermediateCandidateIsIdeal"
  /\ \E cand \in identifyPrimaryCandidate(run[c].intermediateSource, run[c].prevPrimary,
                                          run[c].validCandidates, run[c].opts) :
       IF IsErr(cand)
         THEN Set(c, BodyReturn(run[c], cand))
         ELSE Set(c, [run[c] EXCEPT !.pc = "CheckShardLocked2",
                                    !.isIdeal = /\ cand = run[c].intermediateSource
                                                /\ PromotionRule(cand) # MustNotPromoteRule])
  /\ UNCHANGED <<cluster, lock, counters>>

intermediateCandidateIsIdeal(c) ==
  /\ run[c].pc = "intermediateCandidateIsIdeal"
  /\ \E cand \in identifyPrimaryCandidate(run[c].intermediateSource, run[c].prevPrimary,
                                          run[c].validCandidates, run[c].opts) :
       IF IsErr(cand)
         THEN Set(c, BodyReturn(run[c], cand))
         ELSE Set(c, [run[c] EXCEPT !.pc = "CheckShardLocked2",
                                    !.isIdeal = (cand = run[c].intermediateSource)])
  /\ UNCHANGED <<cluster, lock, counters>>

\* Variant: the result of the second lock check is dropped.
CheckShardLockedAgain_Ignore(c) ==
  /\ run[c].pc = "CheckShardLocked2"
  /\ Set(c, [run[c] EXCEPT
       !.pc = IF run[c].isIdeal THEN "checkIfConstraintsSatisfied"
              ELSE "promoteIntermediatePrimary",
       !.newPrimary = run[c].intermediateSource])
  /\ UNCHANGED <<cluster, lock, counters>>

\* Variant: the lost lock is recorded but the run goes on.
CheckShardLockedAgain_NoReturn(c) ==
  /\ run[c].pc = "CheckShardLocked2"
  /\ Set(c, [run[c] EXCEPT
       !.pc = IF run[c].isIdeal THEN "checkIfConstraintsSatisfied"
              ELSE "promoteIntermediatePrimary",
       !.err = IF lock = c THEN "nil" ELSE ErrLockLost,
       !.newPrimary = run[c].intermediateSource])
  /\ UNCHANGED <<cluster, lock, counters>>

\* Variant: the intermediate reparent is skipped whatever the ideal check said.
CheckShardLockedAgain_SkipIntermediate(c) ==
  /\ run[c].pc = "CheckShardLocked2"
  /\ IF lock = c
       THEN Set(c, [run[c] EXCEPT !.pc = "checkIfConstraintsSatisfied",
                                  !.newPrimary = run[c].intermediateSource])
       ELSE Set(c, BodyReturn(run[c], ErrLockLost))
  /\ UNCHANGED <<cluster, lock, counters>>

\* After the second lock check newPrimary starts as the intermediate source.
CheckShardLockedAgain(c) ==
  /\ run[c].pc = "CheckShardLocked2"
  /\ IF lock = c
       THEN Set(c, [run[c] EXCEPT
              !.pc = IF run[c].isIdeal THEN "checkIfConstraintsSatisfied"
                     ELSE "promoteIntermediatePrimary",
              !.newPrimary = run[c].intermediateSource])
       ELSE Set(c, BodyReturn(run[c], ErrLockLost))
  /\ UNCHANGED <<cluster, lock, counters>>

\* ------------------------------------------------------------------------
\* Reparent executor: reparentReplicas
\* ------------------------------------------------------------------------
Finished == {"none", "ok", "err"}

waitForAllReplicas(r) == r.phase = "intermediate"
populateReparentJournal(r) == r.phase = "final"

AllTasksDone(r) == \A t \in Tablets : r.task[t] \in Finished

\* vterrors.Wrapf: a nil error stays nil, any other error gets the message.
Wrapf(e, msg) == IF e = "nil" THEN "nil" ELSE msg

\* rec.Error(): nil when no replica task has recorded an error.
recError(r) == IF r.recErrors = 0 THEN "nil" ELSE "recorded errors"

\* The caller reads replicasStartedReplication, without taking replicaMutex,
\* while the tasks of listReadUnfinished have not finished.
ReadList(r) ==
  [r EXCEPT !.listRead = TRUE,
            !.listReadUnfinished = {t \in Tablets : r.task[t] \notin Finished}]

\* Variant: the event's NewPrimary is set when the final reparent returns,
\* with or without an error.
reparentReplicasReturn_EventOnError(r, list, e) ==
  LET r1 == [r EXCEPT !.rrpc = "returned", !.rrErr = e,
                      !.evNewPrimary = IF r.phase = "final" THEN r.newPrimary ELSE @]
  IN  IF e # "nil" THEN BodyReturn(r1, e)
      ELSE IF r.phase = "intermediate"
        THEN [r1 EXCEPT !.pc = "identifyPrimaryCandidate",
                        !.validReplacementCandidates = list \cup {r.rrPrimary}]
      ELSE BodyReturn(r1, "nil")

\* reparentReplicas returns (list, e) to the step of the orchestrator that
\* called it: promoteIntermediatePrimary or promoteNewPrimary.
reparentReplicasReturn(r, list, e) ==
  LET r1 == [r EXCEPT !.rrpc = "returned", !.rrErr = e]
  IN  IF e # "nil" THEN BodyReturn(r1, e)
      ELSE IF r.phase = "intermediate"
        THEN [r1 EXCEPT !.pc = "identifyPrimaryCandidate",
                        !.validReplacementCandidates = list \cup {r.rrPrimary}]
      ELSE BodyReturn([r1 EXCEPT !.evNewPrimary = r.newPrimary], "nil")

\* Variant: IgnoreReplicas is not looked at when the tasks are spawned.
reparentReplicas_SpawnIgnored(c, at, ph, newPrimaryTablet) ==
  /\ run[c].pc = at
  /\ LET replicas == {t \in run[c].tabletMap : t # newPrimaryTablet}
     IN  Set(c, [run[c] EXCEPT
           !.pc = "reparentReplicas", !.phase = ph, !.rrpc = "MasterPosition",
           !.rrPrimary = newPrimaryTablet, !.primaryFailed = FALSE, !.rrErr = "nil",
           !.setMasterCalls = [t \in Tablets |-> 0],
           !.listRead = FALSE, !.listReadUnfinished = {},
           !.task = [t \in Tablets |-> IF t \in replicas THEN "spawned" ELSE "none"],
           !.numReplicas = Cardinality(replicas),
           !.replicasStartedReplication = {}, !.recErrors = 0,
           !.replSuccess = FALSE, !.allReplicasDone = FALSE, !.replCancelled = FALSE])
  /\ UNCHANGED <<cluster, lock, counters>>

\* The contexts are created and one handleReplica task is spawned for every
\* tablet of the map that is neither the new primary nor ignored.
reparentReplicas(c, at, ph, newPrimaryTablet) ==
  /\ run[c].pc = at
  /\ LET replicas == {t \in run[c].tabletMap :
                        t # newPrimaryTablet /\ t \notin run[c].opts.IgnoreReplicas}
     IN  Set(c, [run[c] EXCEPT
           !.pc = "reparentReplicas", !.phase = ph, !.rrpc = "MasterPosition",
           !.rrPrimary = newPrimaryTablet, !.primaryFailed = FALSE, !.rrErr = "nil",
           !.setMasterCalls = [t \in Tablets |-> 0],
           !.listRead = FALSE, !.listReadUnfinished = {},
           !.task = [t \in Tablets |-> IF t \in replicas THEN "spawned" ELSE "none"],
           !.numReplicas = Cardinality(replicas),
           !.replicasStartedReplication = {}, !.recErrors = 0,
           !.replSuccess = FALSE, !.allReplicasDone = FALSE, !.replCancelled = FALSE])
  /\ UNCHANGED <<cluster, lock, counters>>

promoteIntermediatePrimary(c) ==
  reparentReplicas(c, "promoteIntermediatePrimary", "intermediate", run[c].intermediateSource)

\* handleReplica issues SetMaster, with forceStart when the tablet has a
\* stop-replication status that shows replication was running.
handleReplicaSetMaster(c, t) ==
  /\ run[c].task[t] = "spawned"
  /\ LET forceStart == t \in run[c].statusMap /\ tablets[t].running
     IN  Set(c, [run[c] EXCEPT
           !.task[t] = "inflight",
           !.setMasterCalls[t] = @ + 1,
           !.setMasters = @ \cup {[tablet |-> t, source |-> run[c].rrPrimary,
                                   forceStart |-> forceStart, phase |-> run[c].phase]}])
  /\ UNCHANGED <<cluster, lock, counters>>

\* Variant: a task whose SetMaster succeeded does not wait for replicaMutex.
handleReplicaSetMasterReturn_NoMutex(c, t) ==
  /\ run[c].task[t] = "inflight"
  /\ \E ok \in (IF run[c].replCancelled THEN {FALSE} ELSE BOOLEAN) :
       IF ok
         THEN Set(c, [run[c] EXCEPT !.task[t] = "locked"])
         ELSE Set(c, [run[c] EXCEPT !.task[t] = "err", !.recErrors = @ + 1])
  /\ UNCHANGED <<cluster, lock, counters>>

\* SetMaster returns: an error is recorded and the task ends; on success the
\* task takes replicaMutex.
handleReplicaSetMasterReturn(c, t) ==
  /\ run[c].task[t] = "inflight"
  /\ \E ok \in (IF run[c].replCancelled THEN {FALSE} ELSE BOOLEAN) :
       IF ok
         THEN /\ \A u \in Tablets : run[c].task[u] # "locked"
              /\ Set(c, [run[c] EXCEPT !.task[t] = "locked"])
         ELSE Set(c, [run[c] EXCEPT !.task[t] = "err", !.recErrors = @ + 1])
  /\ UNCHANGED <<cluster, lock, counters>>

\* The task appends itself, releases the mutex, signals the first success
\* when not every replica is waited for, and ends.
handleReplicaAppend(c, t) ==
  /\ run[c].task[t] = "locked"
  /\ Set(c, [run[c] EXCEPT
       !.task[t] = "ok",
       !.replicasStartedReplication = @ \cup {t},
       !.replSuccess = @ \/ ~waitForAllReplicas(run[c])])
  /\ UNCHANGED <<cluster, lock, counters>>

\* Variant: allReplicasDoneCtx is cancelled only when no task recorded an
\* error.
allReplicasDoneWaiter_OnlyWithoutErrors(c) ==
  /\ run[c].rrpc # "idle"
  /\ AllTasksDone(run[c])
  /\ run[c].recErrors = 0
  /\ ~run[c].allReplicasDone
  /\ Set(c, [run[c] EXCEPT !.allReplicasDone = TRUE])
  /\ UNCHANGED <<cluster, lock, counters>>

\* The goroutine that waits for replWg and cancels allReplicasDoneCtx.
allReplicasDoneWaiter(c) ==
  /\ run[c].rrpc # "idle"
  /\ AllTasksDone(run[c])
  /\ ~run[c].allReplicasDone
  /\ Set(c, [run[c] EXCEPT !.allReplicasDone = TRUE])
  /\ UNCHANGED <<cluster, lock, counters>>

\* The goroutine, started once the primary step succeeded, that waits for
\* replWg and cancels replCtx.
replCancelWaiter(c) ==
  /\ run[c].rrpc \in {"select", "returned"}
  /\ ~run[c].primaryFailed
  /\ AllTasksDone(run[c])
  /\ ~run[c].replCancelled
  /\ Set(c, [run[c] EXCEPT !.replCancelled = TRUE])
  /\ UNCHANGED <<cluster, lock, counters>>

\* handlePrimary: MasterPosition on the new primary.
handlePrimaryMasterPosition(c) ==
  /\ run[c].pc = "reparentReplicas"
  /\ run[c].rrpc = "MasterPosition"
  /\ LET r == [run[c] EXCEPT !.masterPositions = @ \cup {[tablet |-> run[c].rrPrimary,
                                                          phase |-> run[c].phase]}]
     IN  \E ok \in BOOLEAN :
           IF ok
             THEN Set(c, [r EXCEPT !.rrpc = IF populateReparentJournal(r)
                                            THEN "PopulateReparentJournal" ELSE "select"])
             ELSE Set(c, reparentReplicasReturn(
                           [r EXCEPT !.replCancelled = TRUE, !.primaryFailed = TRUE],
                           {}, "failed to PopulateReparentJournal on primary"))
  /\ UNCHANGED <<cluster, lock, counters>>

\* Variant: a failed journal write takes back the replicas that had accepted
\* the new source.
handlePrimaryPopulateReparentJournal_UndoAccepted(c) ==
  /\ run[c].pc = "reparentReplicas"
  /\ run[c].rrpc = "PopulateReparentJournal"
  /\ LET r == [run[c] EXCEPT !.journals = @ \cup {[tablet |-> run[c].rrPrimary,
                                                   newPrimary |-> run[c].rrPrimary]},
                             !.journalCalls = @ + 1]
     IN  \E ok \in BOOLEAN :
           IF ok
             THEN Set(c, [r EXCEPT !.rrpc = "select"])
             ELSE Set(c, reparentReplicasReturn(
                           [r EXCEPT !.replCancelled = TRUE, !.primaryFailed = TRUE,
                                     !.task = [t \in Tablets |-> IF @[t] = "ok" THEN "none" ELSE @[t]],
                                     !.replicasStartedReplication = {}],
                           {}, "failed to PopulateReparentJournal on primary"))
  /\ UNCHANGED <<cluster, lock, counters>>

\* Variant: a failed journal write returns the error without cancelling
\* replCtx.
handlePrimaryPopulateReparentJournal_NoCancel(c) ==
  /\ run[c].pc = "reparentReplicas"
  /\ run[c].rrpc = "PopulateReparentJournal"
  /\ LET r == [run[c] EXCEPT !.journals = @ \cup {[tablet |-> run[c].rrPrimary,
                                                   newPrimary |-> run[c].rrPrimary]},
                             !.journalCalls = @ + 1]
     IN  \E ok \in BOOLEAN :
           IF ok
             THEN Set(c, [r EXCEPT !.rrpc = "select"])
             ELSE Set(c, reparentReplicasReturn(
                           [r EXCEPT !.primaryFailed = TRUE],
                           {}, "failed to PopulateReparentJournal on primary"))
  /\ UNCHANGED <<cluster, lock, counters>>

\* handlePrimary: PopulateReparentJournal on the new primary.
handlePrimaryPopulateReparentJournal(c) ==
  /\ run[c].pc = "reparentReplicas"
  /\ run[c].rrpc = "PopulateReparentJournal"
  /\ LET r == [run[c] EXCEPT !.journals = @ \cup {[tablet |-> run[c].rrPrimary,
                                                   newPrimary |-> run[c].rrPrimary]},
                             !.journalCalls = @ + 1]
     IN  \E ok \in BOOLEAN :
           IF ok
             THEN Set(c, [r EXCEPT !.rrpc = "select"])
             ELSE Set(c, reparentReplicasReturn(
                           [r EXCEPT !.replCancelled = TRUE, !.primaryFailed = TRUE],
                           {}, "failed to PopulateReparentJournal on primary"))
  /\ UNCHANGED <<cluster, lock, counters>>

\* Variant: the select does not wait for either signal.
reparentReplicasSelect_NoWait(c) ==
  /\ run[c].pc = "reparentReplicas"
  /\ run[c].rrpc = "select"
  /\ IF run[c].recErrors >= run[c].numReplicas /\ run[c].numReplicas > 0
       THEN Set(c, reparentReplicasReturn(run[c], {}, "replica(s) failed"))
       ELSE Set(c, reparentReplicasReturn(ReadList(run[c]), run[c].replicasStartedReplication, "nil"))
  /\ UNCHANGED <<cluster, lock, counters>>

\* Variant: after the all-done signal only more errors than replicas are an
\* error.
reparentReplicasSelect_ErrorsOnlyAbove(c) ==
  /\ run[c].pc = "reparentReplicas"
  /\ run[c].rrpc = "select"
  /\ \/ /\ run[c].replSuccess
        /\ Set(c, reparentReplicasReturn(run[c], {}, "nil"))
     \/ /\ run[c].allReplicasDone
        /\ IF run[c].recErrors > run[c].numReplicas
             THEN Set(c, reparentReplicasReturn(run[c], {}, "replica(s) failed"))
             ELSE Set(c, reparentReplicasReturn(ReadList(run[c]), run[c].replicasStartedReplication, "nil"))
  /\ UNCHANGED <<cluster, lock, counters>>

\* Variant: replCtx is cancelled when reparentReplicas returns.
reparentReplicasSelect_CancelOnReturn(c) ==
  /\ run[c].pc = "reparentReplicas"
  /\ run[c].rrpc = "select"
  /\ LET r == [run[c] EXCEPT !.replCancelled = TRUE]
     IN  \/ /\ r.replSuccess
            /\ Set(c, reparentReplicasReturn(r, {}, "nil"))
         \/ /\ r.allReplicasDone
            /\ IF r.recErrors >= r.numReplicas
                 THEN Set(c, reparentReplicasReturn(r, {}, Wrapf(recError(r), "replica(s) failed")))
                 ELSE Set(c, reparentReplicasReturn(ReadList(r), r.replicasStartedReplication, "nil"))
  /\ UNCHANGED <<cluster, lock, counters>>

\* Variant: the branch of the first success returns the list as well.
reparentReplicasSelect_ReadOnSuccess(c) ==
  /\ run[c].pc = "reparentReplicas"
  /\ run[c].rrpc = "select"
  /\ \/ /\ run[c].replSuccess
        /\ Set(c, reparentReplicasReturn(ReadList(run[c]), run[c].replicasStartedReplication, "nil"))
     \/ /\ run[c].allReplicasDone
        /\ IF run[c].recErrors >= run[c].numReplicas
             THEN Set(c, reparentReplicasReturn(run[c], {},
                                               Wrapf(recError(run[c]), "replica(s) failed")))
             ELSE Set(c, reparentReplicasReturn(ReadList(run[c]), run[c].replicasStartedReplication, "nil"))
  /\ UNCHANGED <<cluster, lock, counters>>

\* The select on replSuccessCtx and allReplicasDoneCtx.
reparentReplicasSelect(c) ==
  /\ run[c].pc = "reparentReplicas"
  /\ run[c].rrpc = "select"
  /\ \/ /\ run[c].replSuccess
        /\ Set(c, reparentReplicasReturn(run[c], {}, "nil"))
     \/ /\ run[c].allReplicasDone
        /\ IF run[c].recErrors >= run[c].numReplicas
             THEN Set(c, reparentReplicasReturn(run[c], {},
                                               Wrapf(recError(run[c]), "replica(s) failed")))
             ELSE Set(c, reparentReplicasReturn(ReadList(run[c]), run[c].replicasStartedReplication, "nil"))
  /\ UNCHANGED <<cluster, lock, counters>>

\* ------------------------------------------------------------------------
\* Orchestrator, after the intermediate reparent
\* ------------------------------------------------------------------------
\* The position of t now: what it had applied when replication stopped,
\* and the intermediate source's records once it has caught up to it.
PositionOf(r, t) ==
  IF t \in r.caughtUp THEN tablets[t].pos \cup tablets[r.intermediateSource].pos
  ELSE tablets[t].pos

\* Variant: the better candidate becomes the new primary without the wait.
identifyPrimaryCandidateStep_NoCatchUp(c) ==
  /\ run[c].pc = "identifyPrimaryCandidate"
  /\ \E cand \in identifyPrimaryCandidate(run[c].intermediateSource, run[c].prevPrimary,
                                          run[c].validReplacementCandidates, run[c].opts) :
       IF IsErr(cand)
         THEN Set(c, BodyReturn(run[c], cand))
         ELSE Set(c, [run[c] EXCEPT !.betterCandidate = cand, !.newPrimary = cand,
                                    !.pc = "checkIfConstraintsSatisfied"])
  /\ UNCHANGED <<cluster, lock, counters>>

identifyPrimaryCandidateStep(c) ==
  /\ run[c].pc = "identifyPrimaryCandidate"
  /\ \E cand \in identifyPrimaryCandidate(run[c].intermediateSource, run[c].prevPrimary,
                                          run[c].validReplacementCandidates, run[c].opts) :
       IF IsErr(cand)
         THEN Set(c, BodyReturn(run[c], cand))
         ELSE Set(c, [run[c] EXCEPT
                !.betterCandidate = cand,
                !.pc = IF cand # run[c].intermediateSource THEN "waitForCatchUp"
                       ELSE "checkIfConstraintsSatisfied"])
  /\ UNCHANGED <<cluster, lock, counters>>

\* Variant: the error of the wait is dropped.
waitForCatchUp_IgnoreError(c) ==
  /\ run[c].pc = "waitForCatchUp"
  /\ LET r == [run[c] EXCEPT !.catchUps = @ \cup {run[c].betterCandidate}]
     IN  \E ok \in BOOLEAN :
           Set(c, [r EXCEPT !.pc = "checkIfConstraintsSatisfied",
                            !.caughtUp = IF ok THEN @ \cup {r.betterCandidate} ELSE @,
                            !.newPrimary = r.betterCandidate])
  /\ UNCHANGED <<cluster, lock, counters>>

\* The better candidate waits for the intermediate source's position.
waitForCatchUp(c) ==
  /\ run[c].pc = "waitForCatchUp"
  /\ LET r == [run[c] EXCEPT !.catchUps = @ \cup {run[c].betterCandidate}]
     IN  \E ok \in BOOLEAN :
           IF ok
             THEN Set(c, [r EXCEPT !.pc = "checkIfConstraintsSatisfied",
                                   !.caughtUp = @ \cup {r.betterCandidate},
                                   !.newPrimary = r.betterCandidate])
             ELSE Set(c, BodyReturn(r, "waitForCatchUp failed"))
  /\ UNCHANGED <<cluster, lock, counters>>

\* Variant: the missing previous primary is not checked, and the promotion
\* goes on with the tablet that failed the constraint.
checkIfConstraintsSatisfiedStep_NoPrevPrimaryCheck(c) ==
  /\ run[c].pc = "checkIfConstraintsSatisfied"
  /\ IF checkIfConstraintsSatisfied(run[c].newPrimary, run[c].prevPrimary, run[c].opts)
       THEN Set(c, [run[c] EXCEPT !.pc = "PromoteReplica"])
       ELSE LET r == [run[c] EXCEPT !.constraintFailure = TRUE, !.rejected = run[c].newPrimary]
            IN  Set(c, [r EXCEPT !.pc = "PromoteReplica",
                                 !.newPrimary = IF r.prevPrimary = None THEN @ ELSE r.prevPrimary])
  /\ UNCHANGED <<cluster, lock, counters>>

\* Variant: the constraint failure is reported but the promotion goes on with
\* the tablet that failed the constraint.
checkIfConstraintsSatisfiedStep_KeepRejected(c) ==
  /\ run[c].pc = "checkIfConstraintsSatisfied"
  /\ IF checkIfConstraintsSatisfied(run[c].newPrimary, run[c].prevPrimary, run[c].opts)
       THEN Set(c, [run[c] EXCEPT !.pc = "PromoteReplica"])
       ELSE LET r == [run[c] EXCEPT !.constraintFailure = TRUE, !.rejected = run[c].newPrimary]
            IN  IF r.prevPrimary = None
                  THEN Set(c, BodyReturn(r, ErrNoPrevPrimary))
                  ELSE Set(c, [r EXCEPT !.pc = "PromoteReplica"])
  /\ UNCHANGED <<cluster, lock, counters>>

\* The constraint check, and on failure the switch to the previous primary.
checkIfConstraintsSatisfiedStep(c) ==
  /\ run[c].pc = "checkIfConstraintsSatisfied"
  /\ IF checkIfConstraintsSatisfied(run[c].newPrimary, run[c].prevPrimary, run[c].opts)
       THEN Set(c, [run[c] EXCEPT !.pc = "PromoteReplica"])
       ELSE LET r == [run[c] EXCEPT !.constraintFailure = TRUE, !.rejected = run[c].newPrimary]
            IN  IF r.prevPrimary = None
                  THEN Set(c, BodyReturn(r, ErrNoPrevPrimary))
                  ELSE Set(c, [r EXCEPT !.pc = "PromoteReplica", !.newPrimary = r.prevPrimary])
  /\ UNCHANGED <<cluster, lock, counters>>

\* Variant: the error of PromoteReplica is dropped.
PromoteReplica_IgnoreError(c) ==
  /\ run[c].pc = "PromoteReplica"
  /\ LET r == [run[c] EXCEPT !.promotes = Append(@, run[c].newPrimary),
                             !.lockHeldAtPromote = (lock = c)]
     IN  \E ok \in BOOLEAN :
           Set(c, [r EXCEPT !.pc = "promoteNewPrimary", !.promoteFailed = ~ok])
  /\ UNCHANGED <<cluster, lock, counters>>

\* promoteNewPrimary: PromoteReplica on the new primary.
PromoteReplica(c) ==
  /\ run[c].pc = "PromoteReplica"
  /\ LET r == [run[c] EXCEPT !.promotes = Append(@, run[c].newPrimary),
                             !.lockHeldAtPromote = (lock = c)]
     IN  \E ok \in BOOLEAN :
           IF ok
             THEN Set(c, [r EXCEPT !.pc = "promoteNewPrimary"])
             ELSE Set(c, BodyReturn([r EXCEPT !.promoteFailed = TRUE],
                                    "primary-elect tablet failed to be upgraded to primary"))
  /\ UNCHANGED <<cluster, lock, counters>>

\* promoteNewPrimary: the replicas are reparented to the promoted tablet.
promoteNewPrimary(c) ==
  reparentReplicas(c, "promoteNewPrimary", "final", run[c].newPrimary)

\* Variant: the lock is released only when the run succeeded.
ReparentShardReturn_NoUnlockOnError(c) ==
  /\ run[c].pc = "return"
  /\ IF run[c].err = "nil"
       THEN /\ ersSuccessCounter' = ersSuccessCounter + 1
            /\ UNCHANGED ersFailureCounter
       ELSE /\ ersFailureCounter' = ersFailureCounter + 1
            /\ UNCHANGED ersSuccessCounter
  /\ lock' = IF lock = c /\ run[c].err = "nil" THEN None ELSE lock
  /\ Set(c, [run[c] EXCEPT !.pc = "done",
                           !.unlocks = IF run[c].err = "nil" THEN @ + 1 ELSE @,
                           !.counted = IF run[c].err = "nil" THEN "success" ELSE "failure"])
  /\ UNCHANGED <<cluster, ersCounter>>

\* ReparentShard returns: the deferred counter block, then the deferred unlock.
ReparentShardReturn(c) ==
  /\ run[c].pc = "return"
  /\ IF run[c].err = "nil"
       THEN /\ ersSuccessCounter' = ersSuccessCounter + 1
            /\ UNCHANGED ersFailureCounter
       ELSE /\ ersFailureCounter' = ersFailureCounter + 1
            /\ UNCHANGED ersSuccessCounter
  /\ lock' = IF lock = c THEN None ELSE lock
  /\ Set(c, [run[c] EXCEPT !.pc = "done", !.unlocks = @ + 1,
                           !.counted = IF run[c].err = "nil" THEN "success" ELSE "failure"])
  /\ UNCHANGED <<cluster, ersCounter>>

\* ------------------------------------------------------------------------
\* Specifications
\* ------------------------------------------------------------------------
Unused == [InitRun(NoOptions) EXCEPT !.pc = "unused"]

Attrs(cells, rules, poss, kinds, types, runnings) ==
  [cell : cells, rule : rules, pos : poss, kind : kinds, type : types, running : runnings]

Top == 1..MaxGtid

Healthy(cells, rules, poss) == Attrs(cells, rules, poss, {"replica"}, {"REPLICA"}, {TRUE})

Shard1(A1) == { ("t1" :> a1) : a1 \in A1 }
Shard2(A1, A2) == { ("t1" :> a1) @@ ("t2" :> a2) : a1 \in A1, a2 \in A2 }
Shard3(A1, A2, A3) ==
  { ("t1" :> a1) @@ ("t2" :> a2) @@ ("t3" :> a3) : a1 \in A1, a2 \in A2, a3 \in A3 }

Options(aliases, ignores, prevents) ==
  [NewPrimaryAlias : aliases, IgnoreReplicas : ignores, PreventCrossCellPromotion : prevents]

Scenarios(shards, primaries, options) ==
  [tablets : shards, shardPrimary : primaries, opts : options]

\* Three healthy replicas that differ in cell, promotion rule and position.
PolicyScenarios ==
  Scenarios(
    Shard3(Healthy(Cells, {NeutralPromoteRule, PreferNotPromoteRule, MustNotPromoteRule}, {Top}),
           Attrs({"z1"}, {PreferPromoteRule, NeutralPromoteRule}, {Top, 1..1},
                 {"replica"}, {"REPLICA"}, {FALSE}),
           Healthy({"z2"}, {PreferPromoteRule, MustNotPromoteRule}, {1..1})),
    {None, "t2"},
    Options({None}, {{}}, BOOLEAN))

\* A requested primary, an ignored replica, a replica with errant records.
RequestScenarios ==
  Scenarios(
    Shard3(Healthy({"z1"}, {NeutralPromoteRule, PreferNotPromoteRule}, {Top}),
           Healthy({"z1"}, {NeutralPromoteRule, MustNotPromoteRule}, {Top, 1..1}),
           Attrs({"z2"}, {PreferPromoteRule}, {1..1}, {"replica", "errant"}, {"REPLICA"}, {TRUE})),
    {None, "t1", "t2"},
    Options({None, "t2", "t3"}, {{}, {"t3"}}, BOOLEAN))

\* Diverged positions, a tablet that answers as primary, a tablet that does
\* not answer stop-replication, a drained tablet.
FilterScenarios ==
  Scenarios(
    Shard3(Attrs({"z1"}, {NeutralPromoteRule}, Positions, {"replica", "primary"}, {"REPLICA"}, {TRUE}),
           Attrs({"z1"}, {NeutralPromoteRule}, Positions, {"replica", "unreachable"},
                 {"REPLICA", "DRAINED"}, {TRUE}),
           Attrs({"z2"}, {PreferPromoteRule}, {1..1}, {"replica", "errant"}, {"REPLICA"}, {TRUE})),
    {None},
    Options({None, "t3"}, {{}}, {FALSE}))

\* Shards of one and of two tablets; a requested primary the shard does not
\* have.
SmallScenarios ==
  Scenarios(
    Shard1(Attrs({"z1"}, {NeutralPromoteRule, MustNotPromoteRule}, {Top},
                 {"replica", "errant"}, {"REPLICA"}, {TRUE})),
    {None, "t1"},
    Options({None}, {{}}, BOOLEAN))
  \cup
  Scenarios(
    Shard2(Healthy({"z2"}, {NeutralPromoteRule, MustNotPromoteRule}, {Top}),
           Attrs({"z1"}, {NeutralPromoteRule}, {1..1}, {"replica", "unreachable"}, {"REPLICA"}, {TRUE})),
    {None, "t2"},
    Options({None, "t3"}, {{}, {"t2"}}, BOOLEAN))

AllScenarios == PolicyScenarios \cup RequestScenarios \cup FilterScenarios \cup SmallScenarios

InitWith(scenarios, callers) ==
  /\ \E s \in scenarios :
       /\ tablets = s.tablets
       /\ shardPrimary = s.shardPrimary
       /\ run = [c \in Callers |-> IF c \in callers THEN InitRun(s.opts) ELSE Unused]
  /\ lock = None
  /\ ersCounter = 0
  /\ ersSuccessCounter = 0
  /\ ersFailureCounter = 0

\* One call of ReparentShard.
Init == InitWith(AllScenarios, {"c1"})

\* Two concurrent calls of ReparentShard on a shard of two tablets.
LockScenarios ==
  Scenarios(
    Shard2(Healthy({"z2"}, {PreferNotPromoteRule}, {Top}),
           Healthy({"z1"}, {NeutralPromoteRule}, {1..1})),
    {"t2"},
    Options({None}, {{}}, {FALSE}))

InitLock == InitWith(LockScenarios, Callers)

Step(c) ==
  \/ ReparentShard(c)
  \/ LoseLock(c)
  \/ GetShard(c)
  \/ GetTablet(c)
  \/ GetTabletMapForShard(c)
  \/ StopReplicationAndBuildStatusMaps(c)
  \/ CheckShardLockedAfterStop(c)
  \/ FindValidCandidatesStep(c)
  \/ waitForAllRelayLogsToApply(c)
  \/ FindMostAdvancedStep(c)
  \/ intermediateCandidateIsIdeal(c)
  \/ CheckShardLockedAgain(c)
  \/ promoteIntermediatePrimary(c)
  \/ \E t \in Tablets : handleReplicaSetMaster(c, t)
  \/ \E t \in Tablets : handleReplicaSetMasterReturn(c, t)
  \/ \E t \in Tablets : handleReplicaAppend(c, t)
  \/ allReplicasDoneWaiter(c)
  \/ replCancelWaiter(c)
  \/ handlePrimaryMasterPosition(c)
  \/ handlePrimaryPopulateReparentJournal(c)
  \/ reparentReplicasSelect(c)
  \/ identifyPrimaryCandidateStep(c)
  \/ waitForCatchUp(c)
  \/ checkIfConstraintsSatisfiedStep(c)
  \/ PromoteReplica(c)
  \/ promoteNewPrimary(c)
  \/ ReparentShardReturn(c)

Next == \E c \in Callers : Step(c)

Spec == Init /\ [][Next]_vars

SpecLock == InitLock /\ [][Next]_vars

\* One call of ReparentShard on a shard of three tablets or of one tablet.
LiveScenarios ==
  Scenarios(
    Shard3(Healthy({"z1"}, {PreferNotPromoteRule}, {Top}),
           Healthy({"z1"}, {NeutralPromoteRule}, {Top, 1..1}),
           Healthy({"z2"}, {PreferPromoteRule, MustNotPromoteRule}, {1..1})),
    {None, "t2"},
    Options({None}, {{}, {"t3"}}, {FALSE}))
  \cup
  Scenarios(
    Shard1(Healthy({"z1"}, {NeutralPromoteRule}, {Top})),
    {None},
    Options({None}, {{}}, {FALSE}))

InitLive == InitWith(LiveScenarios, {"c1"})

\* The goroutines of reparentReplicas are scheduled, a mutex that is free is
\* acquired, and every agent RPC issued under replCtx returns.
reparentReplicasFairness ==
  \A c \in Callers :
    /\ WF_vars(handlePrimaryMasterPosition(c))
    /\ WF_vars(handlePrimaryPopulateReparentJournal(c))
    /\ WF_vars(allReplicasDoneWaiter(c))
    /\ WF_vars(replCancelWaiter(c))
    /\ WF_vars(reparentReplicasSelect(c))
    /\ \A t \in Tablets :
         /\ WF_vars(handleReplicaSetMaster(c, t))
         /\ WF_vars(handleReplicaSetMasterReturn(c, t))
         /\ WF_vars(handleReplicaAppend(c, t))

SpecLive == InitLive /\ [][Next]_vars /\ reparentReplicasFairness

\* ------------------------------------------------------------------------
\* Properties
\* ------------------------------------------------------------------------
Promoted(r) == {r.promotes[i] : i \in 1..Len(r.promotes)}
Returned(r) == r.pc \in {"return", "done"}
Succeeded(r) == r.locked /\ Returned(r) /\ r.err = "nil"
NoReparentRPC(r) == r.setMasters = {} /\ r.promotes = <<>> /\ r.journals = {}
\* The filter dropped t for its errant change records.
ExcludedAsErrant(r, t) == t \in r.statusMap /\ HasErrant(t)

C2_SplitBrainAborts ==
  \A c \in Callers :
    LET r == run[c]
    IN  (r.head # None /\ \E v \in r.validCandidates :
                            ~AtLeast(tablets[r.head].pos, tablets[v].pos))
          => Returned(r) /\ r.err = ErrSplitBrain /\ NoReparentRPC(r)

\* A split brain met with a requested primary that is not a valid candidate.
C2_Witness ==
  \E c \in Callers :
    /\ run[c].pc = "done"
    /\ run[c].err = ErrSplitBrain
    /\ run[c].opts.NewPrimaryAlias \notin (run[c].validCandidates \cup {None})

\* C3: in a run that returns success the promoted tablet's position is at
\* least the position of every valid candidate.
C3_PromotedDominates ==
  \A c \in Callers :
    LET r == run[c]
    IN  Succeeded(r) =>
          /\ Len(r.promotes) = 1
          /\ \A v \in r.validCandidates :
               AtLeast(PositionOf(r, r.promotes[1]), tablets[v].pos)

\* A successful run that promoted a tablet that was behind the intermediate
\* source and caught up to it.
C3_Witness ==
  \E c \in Callers :
    LET r == run[c]
    IN  /\ Succeeded(r)
        /\ r.promotes[1] # r.intermediateSource
        /\ ~AtLeast(tablets[r.promotes[1]].pos, tablets[r.intermediateSource].pos)

\* C4: a promoted tablet has a promotion rule other than MUST_NOT, or is the
\* previous primary promoted by the compensation path; in a run that returns
\* success it has a promotion rule other than MUST_NOT.
C4_NeverMustNot ==
  \A c \in Callers :
    LET r == run[c]
    IN  \A t \in Promoted(r) :
          /\ PromotionRule(t) # MustNotPromoteRule \/ (r.constraintFailure /\ t = r.prevPrimary)
          /\ Succeeded(r) => PromotionRule(t) # MustNotPromoteRule

\* The elected tablet was MUST_NOT and the previous primary was promoted.
C4_Witness ==
  \E c \in Callers :
    LET r == run[c]
    IN  /\ r.promotes # <<>>
        /\ r.rejected # None
        /\ PromotionRule(r.rejected) = MustNotPromoteRule
        /\ r.promotes[1] = r.prevPrimary

\* C5: with PreventCrossCellPromotion and a previous primary in the shard
\* record, PromoteReplica is invoked only on tablets of the previous
\* primary's cell.
C5_SameCellPromoted ==
  \A c \in Callers :
    LET r == run[c]
    IN  (r.opts.PreventCrossCellPromotion /\ shardPrimary # None)
          => \A t \in Promoted(r) : Cell(t) = Cell(shardPrimary)

\* The elected tablet was in another cell and the previous primary was
\* promoted instead.
C5_Witness ==
  \E c \in Callers :
    LET r == run[c]
    IN  /\ r.opts.PreventCrossCellPromotion
        /\ r.promotes # <<>>
        /\ r.rejected # None
        /\ Cell(r.rejected) # Cell(r.prevPrimary)
        /\ r.promotes[1] = r.prevPrimary

\* A call is in the orchestrator body: LockShard succeeded, unlock not yet called.
InBody(c) == run[c].locked /\ run[c].unlocks = 0

\* C6 as stated: the orchestrator bodies of two calls never overlap.
C6_BodiesNeverOverlap ==
  \A c1, c2 \in Callers : c1 # c2 => ~(InBody(c1) /\ InBody(c2))

\* C6 amended: the bodies of two calls overlap only when the topology store
\* has dropped the lock of one of them.
C6_OverlapOnlyAfterLockLoss ==
  \A c1, c2 \in Callers :
    (c1 # c2 /\ InBody(c1) /\ InBody(c2)) => (run[c1].lostAt # None \/ run[c2].lostAt # None)

\* One call is in its body with the lock and the other was refused the lock.
C6_Witness ==
  \E c1, c2 \in Callers :
    /\ c1 # c2
    /\ InBody(c1)
    /\ lock = c1
    /\ run[c2].pc = "done"
    /\ ~run[c2].locked

TaskRunning(r) == \E t \in Tablets : r.task[t] \notin Finished

\* C7 as stated: once ReparentShard has returned and released the lock, no
\* replica task of the run is executing or about to execute SetMaster.
C7_NoTaskAfterUnlock ==
  \A c \in Callers : run[c].pc = "done" => ~TaskRunning(run[c])

\* C7 amended: when reparentReplicas waits for all replicas and its primary
\* step succeeded, every SetMaster it issued has completed when it returns,
\* and SetMaster is issued only by a run that acquired the lock.
C7_IntermediateTasksComplete ==
  \A c \in Callers :
    LET r == run[c]
    IN  /\ (r.phase = "intermediate" /\ r.rrpc = "returned" /\ ~r.primaryFailed)
             => ~TaskRunning(r)
        /\ r.setMasters # {} => r.locked

\* The intermediate reparent returned after two replicas answered SetMaster.
C7_Witness ==
  \E c \in Callers :
    LET r == run[c]
    IN  /\ r.phase = "intermediate"
        /\ r.rrpc = "returned"
        /\ ~r.primaryFailed
        /\ r.numReplicas = 2
        /\ r.replicasStartedReplication # {}

\* C8: unlock is invoked exactly once in a run whose LockShard succeeded,
\* after the orchestrator body has finished, and never in a run whose
\* LockShard failed.
C8_UnlockExactlyOnce ==
  \A c \in Callers :
    LET r == run[c]
    IN  /\ r.unlocks = (IF r.locked /\ r.pc = "done" THEN 1 ELSE 0)

\* A run whose compensation failed has released the lock.
C8_Witness ==
  \E c \in Callers :
    /\ run[c].pc = "done"
    /\ run[c].err = ErrUndo
    /\ run[c].promotes # <<>>
    /\ run[c].unlocks = 1

\* C9 as stated: a lock lost before PromoteReplica is issued keeps the run
\* from promoting any tablet.
C9_NoPromoteAfterLockLoss ==
  \A c \in Callers : run[c].promotes # <<>> => run[c].lockHeldAtPromote

\* C9 amended: the lock is checked at two points, after the stop-replication
\* fan-out and before the intermediate reparent; a lock lost before the
\* second check keeps the run from issuing SetMaster, the catch-up wait,
\* PromoteReplica and PopulateReparentJournal.
C9_EarlyLockLossAborts ==
  \A c \in Callers :
    LET r == run[c]
    IN  r.lostAt = "early" => NoReparentRPC(r) /\ r.catchUps = {} /\ r.masterPositions = {}

\* The lock was lost between the two checks and the run is over.
C9_Witness ==
  \E c \in Callers :
    /\ run[c].lostAt = "early"
    /\ run[c].validCandidates # {}
    /\ run[c].pc = "done"

\* C10: a run whose lock check failed has returned that error, has issued
\* no SetMaster, PromoteReplica or PopulateReparentJournal, has not entered
\* the compensation path, and is counted as a failure.
C10_LockLostIsFatal ==
  \A c \in Callers :
    LET r == run[c]
    IN  r.err = ErrLockLost =>
          /\ Returned(r)
          /\ NoReparentRPC(r)
          /\ ~r.constraintFailure
          /\ r.counted # "success"
          /\ r.pc = "done" => (r.counted = "failure" /\ ersFailureCounter >= 1)

\* The second lock check failed.
C10_Witness ==
  \E c \in Callers :
    /\ run[c].err = ErrLockLost
    /\ run[c].intermediateSource # None
    /\ run[c].pc = "done"

\* The calls of ReparentShard that have returned to their caller.
Finished_Calls == {c \in Callers : run[c].pc = "done"}

\* C11: every call of ReparentShard that has returned, a call that failed to
\* acquire the shard lock included, has incremented exactly one of
\* ers_success_counter and ers_failure_counter, by one: the success counter
\* iff it returned a nil error.
C11_ExactlyOneCounterPerCall ==
  /\ \A c \in Finished_Calls :
       /\ run[c].counted \in {"success", "failure"}
       /\ run[c].counted = "success" <=> run[c].err = "nil"
  /\ ersSuccessCounter + ersFailureCounter = Cardinality(Finished_Calls)

\* The steps of S that r has executed, in the order it executed them.
StepsAmong(r, S) == SelectSeq(r.steps, LAMBDA s : s \in S)

\* The steps whose order C12 states.
C12_Steps ==
  {"StopReplicationAndBuildStatusMaps", "FindValidEmergencyReparentCandidates",
   "waitForAllRelayLogsToApply", "findMostAdvanced", "promoteIntermediatePrimary",
   "identifyPrimaryCandidate", "checkIfConstraintsSatisfied", "PromoteReplica"}

C12_FullOrder ==
  << "StopReplicationAndBuildStatusMaps", "FindValidEmergencyReparentCandidates",
     "waitForAllRelayLogsToApply", "findMostAdvanced", "promoteIntermediatePrimary",
     "identifyPrimaryCandidate", "checkIfConstraintsSatisfied", "PromoteReplica" >>

C12_IdealOrder ==
  << "StopReplicationAndBuildStatusMaps", "FindValidEmergencyReparentCandidates",
     "waitForAllRelayLogsToApply", "findMostAdvanced",
     "checkIfConstraintsSatisfied", "PromoteReplica" >>

\* PromoteReplica was issued and the constraint check had passed.
PromotedWithoutCompensation(r) == r.promotes # <<>> /\ ~r.constraintFailure

\* C12 as stated: a run that issued PromoteReplica outside the compensation
\* path has executed collect, filter, relay-log catch-up, intermediate
\* selection, intermediate reparent, final selection and the constraint
\* check, in this order, before PromoteReplica.
C12_IntermediateReparentAlwaysFirst ==
  \A c \in Callers :
    PromotedWithoutCompensation(run[c]) => StepsAmong(run[c], C12_Steps) = C12_FullOrder

\* C12 amended: the order holds, with the intermediate reparent and the
\* final selection executed exactly when the ideal check found that the
\* intermediate source is not the ideal candidate; the intermediate reparent
\* sets the source to the intermediate source and writes no journal.
C12_OrderWithIdealShortcut ==
  \A c \in Callers :
    LET r == run[c]
    IN  /\ PromotedWithoutCompensation(r) =>
             StepsAmong(r, C12_Steps) = (IF r.isIdeal THEN C12_IdealOrder ELSE C12_FullOrder)
        /\ r.promotes = <<>> => r.journals = {}
        /\ \A m \in r.setMasters :
             m.phase = "intermediate" => m.source = r.intermediateSource

\* The intermediate source was not ideal: the run reparented to it, chose
\* another tablet, waited for it and promoted it.
C12_Witness ==
  \E c \in Callers :
    LET r == run[c]
    IN  /\ PromotedWithoutCompensation(r)
        /\ ~r.isIdeal
        /\ r.promotes[1] # r.intermediateSource
        /\ \E m \in r.setMasters : m.phase = "intermediate"

\* The step r executed last, before the return.
LastStep(r) ==
  LET done == StepsAmong(r, {s \in {r.steps[i] : i \in 1..Len(r.steps)} : s # "return"})
  IN  IF r.pc \notin {"return", "done"} \/ done = <<>> THEN None ELSE done[Len(done)]

\* The errors each step of the orchestrator returns.
ErrorsOf(r, s) ==
  CASE s = "GetShard" -> {"GetShard failed"}
    [] s = "GetTablet" -> {"GetTablet failed"}
    [] s = "GetTabletMapForShard" -> {"failed to get tablet map"}
    [] s = "StopReplicationAndBuildStatusMaps" ->
         {"failed to stop replication and build status maps"}
    [] s \in {"CheckShardLocked1", "CheckShardLocked2"} -> {ErrLockLost}
    [] s = "FindValidEmergencyReparentCandidates" -> {ErrNoCandidates}
    [] s = "waitForAllRelayLogsToApply" -> {"could not apply all relay logs"}
    [] s = "findMostAdvanced" -> {ErrSplitBrain, ErrRequestedErrant}
    [] s \in {"intermediateCandidateIsIdeal", "identifyPrimaryCandidate"} ->
         {ErrInternal, ErrNotInList}
    [] s = "reparentReplicas" ->
         {"failed to PopulateReparentJournal on primary", "replica(s) failed"}
    [] s = "waitForCatchUp" -> {"waitForCatchUp failed"}
    [] s = "PromoteReplica" -> {"primary-elect tablet failed to be upgraded to primary"}
    [] OTHER -> {}

OnlyIntermediateReparentRPCs(r) ==
  /\ \A m \in r.setMasters : m.phase = "intermediate"
  /\ \A m \in r.masterPositions : m.phase = "intermediate"
  /\ r.promotes = <<>>
  /\ r.journals = {}

\* No RPC of a step that comes after s has been issued.
NoRPCOfLaterStep(r, s) ==
  /\ s \in {"GetShard", "GetTablet"} => r.tabletMap = {}
  /\ s \in {"GetShard", "GetTablet", "GetTabletMapForShard", "StopReplicationAndBuildStatusMaps"}
       => r.statusMap = {} /\ r.primaryStatusMap = {}
  /\ s \in {"GetShard", "GetTablet", "GetTabletMapForShard", "StopReplicationAndBuildStatusMaps",
            "CheckShardLocked1", "FindValidEmergencyReparentCandidates"}
       => r.relayWaits = {}
  /\ s \in {"GetShard", "GetTablet", "GetTabletMapForShard", "StopReplicationAndBuildStatusMaps",
            "CheckShardLocked1", "FindValidEmergencyReparentCandidates",
            "waitForAllRelayLogsToApply", "findMostAdvanced", "intermediateCandidateIsIdeal",
            "CheckShardLocked2"}
       => NoReparentRPC(r) /\ r.masterPositions = {} /\ r.catchUps = {}
  /\ (s = "identifyPrimaryCandidate" \/ (s = "reparentReplicas" /\ r.phase = "intermediate"))
       => OnlyIntermediateReparentRPCs(r) /\ r.catchUps = {}
  /\ s = "waitForCatchUp" => OnlyIntermediateReparentRPCs(r)

\* C13: a run in which a step other than the constraint check has failed has
\* returned at that step with the error of that step, and has issued no RPC
\* of any later step; a run that has not returned has had no error.
C13_FirstErrorStops ==
  \A c \in Callers :
    LET r == run[c]
    IN  /\ ~Returned(r) => r.err = "nil"
        /\ (r.locked /\ r.err # "nil" /\ ~r.constraintFailure) =>
             /\ Returned(r)
             /\ r.err \in ErrorsOf(r, LastStep(r))
             /\ NoRPCOfLaterStep(r, LastStep(r))

\* The catch-up wait of the final candidate failed after the intermediate
\* reparent had succeeded.
C13_Witness ==
  \E c \in Callers :
    LET r == run[c]
    IN  /\ r.pc = "done"
        /\ r.err = "waitForCatchUp failed"
        /\ r.setMasters # {}
        /\ r.catchUps # {}

\* x is in the cell of the previous primary; without a previous primary no
\* cell is asked for.
InPreviousPrimaryCell(x, prevPrimary) == prevPrimary = None \/ Cell(x) = Cell(prevPrimary)

\* The tablets the ordered list of C14 allows as the result for the
\* intermediate source, the previous primary and the candidate list given.
C14_Allowed(intermediate, prevPrimary, list, opts) ==
  LET preferred == {x \in list : PromotionRule(x) \in {MustPromoteRule, PreferPromoteRule}}
      neutral == {x \in list : PromotionRule(x) = NeutralPromoteRule}
      crossCell == ~opts.PreventCrossCellPromotion
      s1 == {x \in preferred : InPreviousPrimaryCell(x, prevPrimary)}
      s2 == IF crossCell THEN preferred ELSE {}
      s3 == {x \in neutral : InPreviousPrimaryCell(x, prevPrimary)}
      s4 == IF crossCell THEN neutral ELSE {}
      Pick(s) == IF intermediate \in s THEN {intermediate} ELSE s
  IN  IF s1 # {} THEN Pick(s1)
      ELSE IF s2 # {} THEN Pick(s2)
      ELSE IF s3 # {} THEN Pick(s3)
      ELSE IF s4 # {} THEN Pick(s4)
      ELSE {intermediate}

Executed(r, s) == \E i \in 1..Len(r.steps) : r.steps[i] = s

\* C15: with a requested primary, a final selection that has been executed
\* returned the requested tablet when it is among the tablets that accepted
\* the intermediate source or is the intermediate source, whatever its
\* promotion rule and cell; otherwise the run has returned the ABORTED error
\* of the selection and has issued no PromoteReplica.
C15_RequestedWinsOrAborts ==
  \A c \in Callers :
    LET r == run[c]
        requested == r.opts.NewPrimaryAlias
    IN  (requested # None /\ Executed(r, "identifyPrimaryCandidate")) =>
          IF requested \in r.validReplacementCandidates
            THEN r.betterCandidate = requested /\ r.err \notin {ErrNotInList, ErrInternal}
            ELSE /\ r.betterCandidate = None
                 /\ Returned(r)
                 /\ r.err = ErrNotInList
                 /\ r.promotes = <<>>

\* The final selection returned a requested tablet whose promotion rule is
\* MUST_NOT.
C15_RequestedWinsReached ==
  \E c \in Callers :
    LET r == run[c]
    IN  /\ r.opts.NewPrimaryAlias # None
        /\ r.betterCandidate = r.opts.NewPrimaryAlias
        /\ PromotionRule(r.betterCandidate) = MustNotPromoteRule

\* The requested tablet did not accept the intermediate source and the run
\* was aborted.
C15_Witness ==
  \E c \in Callers :
    /\ run[c].pc = "done"
    /\ run[c].err = ErrNotInList
    /\ Executed(run[c], "identifyPrimaryCandidate")

\* C16: with a requested primary that is a valid candidate, the intermediate
\* source findMostAdvanced returned is the requested tablet when its position
\* is at least the sorted head's and the sorted head otherwise; in the
\* second case PromoteReplica is issued on the requested tablet only after it
\* accepted SetMaster to the head and caught up to the head's position.
C16_RequestedIntermediate ==
  \A c \in Callers :
    LET r == run[c]
        requested == r.opts.NewPrimaryAlias
    IN  (requested # None /\ requested \in r.validCandidates /\ r.intermediateSource # None) =>
          /\ r.intermediateSource =
               (IF AtLeast(tablets[requested].pos, tablets[r.head].pos) THEN requested ELSE r.head)
          /\ (r.intermediateSource # requested /\ requested \in Promoted(r)) =>
               /\ [tablet |-> requested, source |-> r.head,
                   forceStart |-> (requested \in r.statusMap /\ tablets[requested].running),
                   phase |-> "intermediate"] \in r.setMasters
               /\ requested \in r.validReplacementCandidates
               /\ requested \in r.caughtUp
               /\ AtLeast(PositionOf(r, requested), tablets[r.head].pos)

\* The requested tablet was behind the head, followed it, caught up and was
\* promoted in a run that succeeded.
C16_Witness ==
  \E c \in Callers :
    LET r == run[c]
        requested == r.opts.NewPrimaryAlias
    IN  /\ requested # None
        /\ Succeeded(r)
        /\ r.head # requested
        /\ r.intermediateSource = r.head
        /\ requested \in Promoted(r)

\* C17: when the filter has left valid candidates and the requested primary
\* is not one of them, the run issues no SetMaster, PromoteReplica or
\* PopulateReparentJournal and never succeeds, and once intermediate
\* selection has been executed the run has returned at that step with a
\* FAILED_PRECONDITION error.
C17_RequestedNotValidFails ==
  \A c \in Callers :
    LET r == run[c]
        requested == r.opts.NewPrimaryAlias
    IN  (requested # None /\ r.validCandidates # {} /\ requested \notin r.validCandidates) =>
          /\ NoReparentRPC(r)
          /\ ~Succeeded(r)
          /\ r.intermediateSource = None
          /\ Executed(r, "findMostAdvanced") =>
               /\ Returned(r)
               /\ LastStep(r) = "findMostAdvanced"
               /\ r.err \in {ErrRequestedErrant, ErrSplitBrain}

\* The requested tablet was dropped for its errant change records and the
\* run failed at intermediate selection.
C17_Witness ==
  \E c \in Callers :
    LET r == run[c]
    IN  /\ r.pc = "done"
        /\ r.err = ErrRequestedErrant
        /\ ExcludedAsErrant(r, r.opts.NewPrimaryAlias)

\* The requested tablet is not a tablet of the shard.
C17_UnknownRequestedReached ==
  \E c \in Callers :
    /\ run[c].err = ErrRequestedErrant
    /\ run[c].opts.NewPrimaryAlias \notin TabletMap

\* C18: the catch-up wait is issued only on a final candidate that differs
\* from the intermediate source; PromoteReplica is issued on such a candidate
\* only after its wait has returned success; a run whose wait failed has
\* returned that error and has issued no PromoteReplica.
C18_CatchUpBeforePromote ==
  \A c \in Callers :
    LET r == run[c]
    IN  /\ r.catchUps \subseteq ({r.betterCandidate} \ {r.intermediateSource, None})
        /\ (r.betterCandidate \notin {None, r.intermediateSource}
              /\ r.betterCandidate \in Promoted(r)) =>
             /\ r.betterCandidate \in r.caughtUp
             /\ StepsAmong(r, {"waitForCatchUp", "PromoteReplica"})
                  = <<"waitForCatchUp", "PromoteReplica">>
        /\ (r.catchUps # {} /\ r.caughtUp = {} /\ r.pc # "waitForCatchUp") =>
             /\ Returned(r)
             /\ r.err = "waitForCatchUp failed"
             /\ r.promotes = <<>>

\* PromoteReplica has just succeeded on a final candidate that had waited for
\* the intermediate source's position.
C18_Witness ==
  \E c \in Callers :
    LET r == run[c]
    IN  /\ r.pc = "promoteNewPrimary"
        /\ r.catchUps = {r.betterCandidate}
        /\ r.promotes = <<r.betterCandidate>>

\* reparentReplicas was called without waiting for all replicas and has
\* returned.
ReturnedWithoutWaitForAll(r) == r.rrpc = "returned" /\ ~waitForAllReplicas(r)

\* C19: when reparentReplicas, called without waiting for all replicas, has
\* returned success, the primary step succeeded and a replica accepted
\* SetMaster; when it has returned after a successful primary step with an
\* error, every replica task recorded an error and none was accepted; and
\* when the primary step succeeded and every replica task recorded an error
\* it has returned an error.
C19_SuccessIffOneAccepted ==
  \A c \in Callers :
    LET r == run[c]
    IN  ReturnedWithoutWaitForAll(r) =>
          /\ r.rrErr = "nil" => ~r.primaryFailed /\ r.replicasStartedReplication # {}
          /\ (r.rrErr # "nil" /\ ~r.primaryFailed) =>
               /\ r.replicasStartedReplication = {}
               /\ r.recErrors = r.numReplicas
               /\ AllTasksDone(r)
          /\ (~r.primaryFailed /\ r.recErrors = r.numReplicas) => r.rrErr # "nil"

\* Both signals had fired: one replica accepted, the other recorded an error,
\* and reparentReplicas returned success.
C19_Witness ==
  \E c \in Callers :
    LET r == run[c]
    IN  /\ ReturnedWithoutWaitForAll(r)
        /\ r.rrErr = "nil"
        /\ r.replSuccess
        /\ r.allReplicasDone
        /\ r.recErrors = 1
        /\ Cardinality(r.replicasStartedReplication) = 1

\* Every replica recorded an error and reparentReplicas returned an error.
C19_AllFailedReached ==
  \E c \in Callers :
    LET r == run[c]
    IN  /\ ReturnedWithoutWaitForAll(r)
        /\ r.rrErr = "replica(s) failed"
        /\ r.numReplicas = 2

\* C20: after a successful primary step, reparentReplicas called without
\* waiting for all replicas returns with replica tasks still running only
\* on the first-success signal and with success, and replCtx is cancelled
\* only once every replica task has finished; the tasks that are still
\* running when it returns are not cancelled.
C20_ResidualTasksNotCancelled ==
  \A c \in Callers :
    LET r == run[c]
    IN  (~waitForAllReplicas(r) /\ r.rrpc \in {"select", "returned"} /\ ~r.primaryFailed) =>
          /\ r.replCancelled => AllTasksDone(r)
          /\ (r.rrpc = "returned" /\ TaskRunning(r)) =>
               /\ r.rrErr = "nil"
               /\ r.replSuccess
               /\ ~r.replCancelled

\* reparentReplicas has returned success after one replica accepted, with
\* another replica's SetMaster still in flight on a context not cancelled.
C20_Witness ==
  \E c \in Callers :
    LET r == run[c]
    IN  /\ ReturnedWithoutWaitForAll(r)
        /\ r.rrErr = "nil"
        /\ Cardinality(r.replicasStartedReplication) = 1
        /\ \E t \in Tablets : r.task[t] = "inflight"
        /\ ~r.replCancelled

\* A SetMaster that was in flight when reparentReplicas returned succeeded
\* after ReparentShard had returned.
C20_LateAcceptReached ==
  \E c \in Callers :
    LET r == run[c]
    IN  /\ r.pc = "done"
        /\ ReturnedWithoutWaitForAll(r)
        /\ r.replCancelled
        /\ Cardinality(r.replicasStartedReplication) = 2

\* reparentReplicas was called waiting for all replicas and has returned.
ReturnedWithWaitForAll(r) == r.rrpc = "returned" /\ waitForAllReplicas(r)

\* The tablets whose SetMaster, issued by the current call of
\* reparentReplicas, has succeeded.
Accepted(r) == {t \in Tablets : r.task[t] = "ok"}

\* C21: when reparentReplicas, called waiting for all replicas, has returned,
\* every replica task has finished; it returned an error iff the number of
\* recorded errors equals the number of replica tasks; and with success the
\* list it returned is exactly the tablets whose SetMaster succeeded, which
\* the caller extends by the new primary.
C21_WaitForAllReturnsAccepted ==
  \A c \in Callers :
    LET r == run[c]
    IN  ReturnedWithWaitForAll(r) =>
          /\ AllTasksDone(r)
          /\ r.rrErr # "nil" <=> r.recErrors = r.numReplicas
          /\ r.rrErr = "nil" =>
               /\ Accepted(r) # {}
               /\ r.replicasStartedReplication = Accepted(r)
               /\ r.validReplacementCandidates = Accepted(r) \cup {r.rrPrimary}

\* What C21 states holds of the calls whose primary side did not fail.
C21_HoldsAfterPrimaryStep ==
  \A c \in Callers :
    LET r == run[c]
    IN  (ReturnedWithWaitForAll(r) /\ ~r.primaryFailed) =>
          /\ AllTasksDone(r)
          /\ r.rrErr # "nil" <=> r.recErrors = r.numReplicas
          /\ r.rrErr = "nil" =>
               /\ Accepted(r) # {}
               /\ r.replicasStartedReplication = Accepted(r)
               /\ r.validReplacementCandidates = Accepted(r) \cup {r.rrPrimary}

\* C22: when the primary side of reparentReplicas has failed, replCtx is
\* cancelled and reparentReplicas has returned its error and no list to the
\* orchestrator, which has returned too, whatever the replica tasks have
\* done.
C22_PrimaryFailureCancels ==
  \A c \in Callers :
    LET r == run[c]
    IN  r.primaryFailed =>
          /\ r.replCancelled
          /\ r.rrpc = "returned"
          /\ r.rrErr = "failed to PopulateReparentJournal on primary"
          /\ Returned(r)
          /\ r.err \in {r.rrErr, ErrUndo}
          /\ r.phase = "intermediate" => r.validReplacementCandidates = {}
          /\ r.evNewPrimary = None

\* The journal write failed after one replica had accepted SetMaster and
\* while the SetMaster of another was in flight.
C22_Witness ==
  \E c \in Callers :
    LET r == run[c]
    IN  /\ r.primaryFailed
        /\ r.journals # {}
        /\ r.replicasStartedReplication # {}
        /\ \E t \in Tablets : r.task[t] = "inflight"

\* C23: a call of reparentReplicas that does not populate the reparent
\* journal issues no RPC to the new primary, and its primary side does not
\* fail.
C23_NoPrimaryRPCWithoutJournal ==
  \A c \in Callers :
    LET r == run[c]
    IN  /\ \A m \in r.masterPositions : m.phase # "intermediate"
        /\ ~(r.phase = "intermediate" /\ r.primaryFailed)

\* C24: in each call of reparentReplicas every tablet receives at most one
\* SetMaster, and none the new primary of the call or a tablet of
\* IgnoreReplicas; every SetMaster goes to a tablet of the tablet map, names
\* the new primary of its call as source, and has forceStart set exactly
\* when the tablet has a stop-replication status that shows replication was
\* running.
C24_OneSetMasterPerReplica ==
  \A c \in Callers :
    LET r == run[c]
    IN  /\ \A t \in Tablets :
             /\ r.setMasterCalls[t] <= 1
             /\ (t = r.rrPrimary \/ t \in r.opts.IgnoreReplicas \/ t \notin r.tabletMap)
                  => r.setMasterCalls[t] = 0 /\ r.task[t] = "none"
        /\ \A m \in r.setMasters :
             /\ m.tablet \in r.tabletMap
             /\ m.tablet \notin r.opts.IgnoreReplicas
             /\ m.tablet # m.source
             /\ m.source = (IF m.phase = "intermediate" THEN r.intermediateSource
                            ELSE r.newPrimary)
             /\ m.forceStart = (m.tablet \in r.statusMap /\ tablets[m.tablet].running)

\* With a tablet of the map in IgnoreReplicas, another tablet received
\* SetMaster in the intermediate and in the final reparent.
C24_Witness ==
  \E c \in Callers :
    LET r == run[c]
    IN  /\ r.opts.IgnoreReplicas \cap r.tabletMap # {}
        /\ \E m1, m2 \in r.setMasters :
             m1.tablet = m2.tablet /\ m1.phase = "intermediate" /\ m2.phase = "final"

\* SetMaster was issued without forceStart to a tablet whose stop-replication
\* status shows replication was not running.
C24_NotRunningReached ==
  \E c \in Callers :
    \E m \in run[c].setMasters : ~m.forceStart /\ m.tablet \in run[c].statusMap

\* SetMaster was issued without forceStart to a running tablet that has no
\* stop-replication status.
C24_NoStatusReached ==
  \E c \in Callers :
    \E m \in run[c].setMasters :
      ~m.forceStart /\ m.tablet \notin run[c].statusMap /\ tablets[m.tablet].running


\* The compensating promotion of the previous primary has succeeded:
\* PromoteReplica and the final reparentReplicas both returned no error.
CompensationSucceeded(r) ==
  /\ r.constraintFailure
  /\ r.promotes # <<>>
  /\ r.phase = "final" /\ r.rrpc = "returned" /\ r.rrErr = "nil"

\* C25: a run whose constraint check failed returns an ABORTED error and is
\* counted as a failure; the error is the constraint failure itself when the
\* compensating promotion succeeded, and otherwise the error that joins the
\* undo error with the constraint failure.
C25_ConstraintFailureAborts ==
  \A c \in Callers :
    LET r == run[c]
    IN  (r.constraintFailure /\ Returned(r)) =>
          /\ r.err = (IF CompensationSucceeded(r) THEN ErrConstraint ELSE ErrUndo)
          /\ r.pc = "done" => r.counted = "failure" /\ ersFailureCounter >= 1
          /\ r.evNewPrimary # None <=> CompensationSucceeded(r)

\* The compensating promotion succeeded and the call has returned the
\* constraint failure.
C25_Witness ==
  \E c \in Callers :
    /\ run[c].pc = "done"
    /\ CompensationSucceeded(run[c])
    /\ run[c].err = ErrConstraint

\* The compensating PromoteReplica failed, or the reparent after it, and the
\* call has returned the joined error.
C25_UndoFailedReached ==
  \E c \in Callers :
    /\ run[c].pc = "done"
    /\ run[c].constraintFailure
    /\ run[c].promotes # <<>>
    /\ run[c].phase = "final" /\ run[c].rrErr # "nil"
    /\ run[c].err = ErrUndo

\* The constraint check of r failed and the shard record names no primary.
ConstraintFailedWithoutPrevPrimary(r) == r.constraintFailure /\ r.prevPrimary = None

\* C26: a run whose constraint check failed while the shard record names no
\* previous primary has returned an ABORTED error, and has issued no
\* PromoteReplica, no SetMaster of the final reparent, no MasterPosition of
\* the final reparent and no PopulateReparentJournal.
C26_NoUndoWithoutPrevPrimary ==
  \A c \in Callers :
    LET r == run[c]
    IN  ConstraintFailedWithoutPrevPrimary(r) =>
          /\ Returned(r)
          /\ r.err = ErrUndo
          /\ r.promotes = <<>>
          /\ r.journals = {}
          /\ \A m \in r.setMasters : m.phase = "intermediate"
          /\ \A m \in r.masterPositions : m.phase = "intermediate"
          /\ r.evNewPrimary = None
          /\ r.pc = "done" => r.counted = "failure"

\* The constraint check failed without previous primary, after an
\* intermediate reparent.
C26_Witness ==
  \E c \in Callers :
    /\ ConstraintFailedWithoutPrevPrimary(run[c])
    /\ run[c].pc = "done"
    /\ run[c].setMasters # {}

\* The constraint check failed without previous primary for an intermediate
\* source judged ideal.
C26_IdealRejectedReached ==
  \E c \in Callers :
    /\ ConstraintFailedWithoutPrevPrimary(run[c])
    /\ run[c].pc = "done"
    /\ run[c].isIdeal

\* The constraint check of r failed and the shard record names a primary.
ConstraintFailedWithPrevPrimary(r) == r.constraintFailure /\ r.prevPrimary # None

\* C27: a run whose constraint check failed while the shard record names a
\* previous primary goes on to PromoteReplica on the previous primary: once
\* past that step it has issued PromoteReplica exactly once, on the previous
\* primary, never on the tablet that failed the constraint, and every
\* SetMaster, MasterPosition and PopulateReparentJournal of the final
\* reparent names the previous primary.
C27_UndoPromotesPrevPrimary ==
  \A c \in Callers :
    LET r == run[c]
    IN  ConstraintFailedWithPrevPrimary(r) =>
          /\ r.rejected # r.prevPrimary
          /\ r.newPrimary = r.prevPrimary
          /\ r.pc = "PromoteReplica" => r.promotes = <<>>
          /\ r.pc # "PromoteReplica" => r.promotes = << r.prevPrimary >>
          /\ r.rejected \notin Promoted(r)
          /\ \A m \in r.setMasters : m.phase = "final" => m.source = r.prevPrimary
          /\ \A m \in r.masterPositions : m.phase = "final" => m.tablet = r.prevPrimary
          /\ \A j \in r.journals : j.tablet = r.prevPrimary
          /\ r.evNewPrimary \in {None, r.prevPrimary}

\* After a failed constraint check the previous primary was promoted and the
\* tablet that failed the constraint was told to replicate from it.
C27_Witness ==
  \E c \in Callers :
    LET r == run[c]
    IN  /\ ConstraintFailedWithPrevPrimary(r)
        /\ r.promotes = << r.prevPrimary >>
        /\ \E m \in r.setMasters :
             m.phase = "final" /\ m.tablet = r.rejected /\ m.source = r.prevPrimary


\* What holds of C27: the same, for the runs in which the tablet that failed
\* the constraint is not the previous primary itself.
C27_HoldsForOtherTablet ==
  \A c \in Callers :
    LET r == run[c]
    IN  (ConstraintFailedWithPrevPrimary(r) /\ r.rejected # r.prevPrimary) =>
          /\ r.newPrimary = r.prevPrimary
          /\ r.pc = "PromoteReplica" => r.promotes = <<>>
          /\ r.pc # "PromoteReplica" => r.promotes = << r.prevPrimary >>
          /\ r.rejected \notin Promoted(r)
          /\ \A m \in r.setMasters : m.phase = "final" => m.source = r.prevPrimary
          /\ \A m \in r.masterPositions : m.phase = "final" => m.tablet = r.prevPrimary
          /\ \A j \in r.journals : j.tablet = r.prevPrimary
          /\ r.evNewPrimary \in {None, r.prevPrimary}

\* The previous primary failed the constraint check and was promoted by the
\* compensation.
C27_RejectedPromotedReached ==
  \E c \in Callers :
    LET r == run[c]
    IN  /\ ConstraintFailedWithPrevPrimary(r)
        /\ r.rejected = r.prevPrimary
        /\ r.rejected \in Promoted(r)


\* The valid candidates that have an entry in the stop-replication status map.
RelayLogWaiters(r) == r.validCandidates \cap r.statusMap

\* C28: WaitForRelayLogsToApply is issued by waitForAllRelayLogsToApply only,
\* to exactly the valid candidates that have a stop-replication status; the
\* step succeeds, and the run goes on to the intermediate selection, iff no
\* wait failed; when a wait failed the run has returned the error of the
\* step with no head selected and no SetMaster, MasterPosition, catch-up
\* wait, PromoteReplica or PopulateReparentJournal issued.
C28_RelayLogWaitAllRequired ==
  \A c \in Callers :
    LET r == run[c]
    IN  /\ r.relayFailed \subseteq r.relayWaits
        /\ ~Executed(r, "waitForAllRelayLogsToApply") => r.relayWaits = {}
        /\ Executed(r, "waitForAllRelayLogsToApply") =>
             /\ r.relayWaits = RelayLogWaiters(r)
             /\ r.relayFailed = {} =>
                  r.pc = "findMostAdvanced" \/ Executed(r, "findMostAdvanced")
             /\ r.relayFailed # {} =>
                  /\ Returned(r)
                  /\ r.err = "could not apply all relay logs"
                  /\ LastStep(r) = "waitForAllRelayLogsToApply"
                  /\ r.head = None /\ r.intermediateSource = None
                  /\ NoReparentRPC(r) /\ r.masterPositions = {} /\ r.catchUps = {}

\* A valid candidate without status was skipped, and one wait of two failed,
\* which failed the run.
C28_Witness ==
  \E c \in Callers :
    LET r == run[c]
    IN  /\ r.pc = "done"
        /\ r.validCandidates \ r.statusMap # {}
        /\ Cardinality(r.relayWaits) = 2
        /\ Cardinality(r.relayFailed) = 1

\* No wait was issued although there are valid candidates, and the run went
\* on to the intermediate selection.
C28_NoWaitReached ==
  \E c \in Callers :
    LET r == run[c]
    IN  /\ Executed(r, "findMostAdvanced")
        /\ r.validCandidates # {}
        /\ r.relayWaits = {}


\* The tablets that the errant filter and the type restriction leave of the
\* status maps of r.
SurvivingCandidates(r) ==
  restrictValidCandidates(FindValidEmergencyReparentCandidates(r.statusMap, r.primaryStatusMap))

\* C29: a run whose candidate filter has been executed and has left no
\* tablet has returned the FAILED_PRECONDITION error of the filter and has
\* issued no WaitForRelayLogsToApply, SetMaster, MasterPosition, catch-up
\* wait, PromoteReplica or PopulateReparentJournal; and that error is
\* returned in no other case.
C29_NoCandidatesFails ==
  \A c \in Callers :
    LET r == run[c]
    IN  /\ (Executed(r, "FindValidEmergencyReparentCandidates") /\ SurvivingCandidates(r) = {}) =>
             /\ Returned(r)
             /\ r.err = ErrNoCandidates
             /\ LastStep(r) = "FindValidEmergencyReparentCandidates"
             /\ r.relayWaits = {}
             /\ NoReparentRPC(r) /\ r.masterPositions = {} /\ r.catchUps = {}
             /\ r.pc = "done" => r.counted = "failure"
        /\ r.err = ErrNoCandidates =>
             Executed(r, "FindValidEmergencyReparentCandidates") /\ SurvivingCandidates(r) = {}

\* Every tablet that answered stop-replication was dropped by the filter and
\* the call has returned.
C29_Witness ==
  \E c \in Callers :
    LET r == run[c]
    IN  /\ r.pc = "done"
        /\ r.err = ErrNoCandidates
        /\ r.statusMap # {}


\* Exactly one tablet survived the candidate filter of r.
SingleCandidate(r) == Cardinality(r.validCandidates) = 1

\* C30: in a run whose candidate filter left exactly one tablet, the
\* intermediate selection, when it succeeds, selects that tablet; the ideal
\* check judges it ideal and returns no error, whatever its promotion rule;
\* no intermediate reparent, no final selection and no catch-up wait is
\* executed; and when the constraint check has passed PromoteReplica is
\* issued on that tablet and on no other.
C30_SingleCandidatePromotedDirectly ==
  \A c \in Callers :
    LET r == run[c]
    IN  SingleCandidate(r) =>
          /\ r.intermediateSource # None => r.validCandidates = {r.intermediateSource}
          /\ (Executed(r, "findMostAdvanced") /\ r.intermediateSource = None) =>
               Returned(r) /\ LastStep(r) = "findMostAdvanced"
          /\ Executed(r, "intermediateCandidateIsIdeal") => r.isIdeal
          /\ LastStep(r) # "intermediateCandidateIsIdeal"
          /\ ~Executed(r, "promoteIntermediatePrimary")
          /\ ~Executed(r, "identifyPrimaryCandidate")
          /\ r.catchUps = {}
          /\ \A m \in r.setMasters : m.phase = "final"
          /\ \A m \in r.masterPositions : m.phase = "final"
          /\ ~r.constraintFailure => Promoted(r) \subseteq r.validCandidates
          /\ (Executed(r, "PromoteReplica") /\ ~r.constraintFailure) =>
               r.promotes = << r.intermediateSource >>

\* The one surviving tablet of a shard of several tablets was promoted
\* directly, and other tablets of the shard were told to replicate from it.
C30_Witness ==
  \E c \in Callers :
    LET r == run[c]
    IN  /\ SingleCandidate(r)
        /\ Cardinality(r.tabletMap) > 1
        /\ ~r.constraintFailure
        /\ r.promotes = << r.intermediateSource >>
        /\ r.setMasters # {}

\* The one surviving tablet must not be promoted: it was judged ideal and
\* then failed the constraint check.
C30_MustNotIdealReached ==
  \E c \in Callers :
    LET r == run[c]
    IN  /\ SingleCandidate(r)
        /\ r.isIdeal
        /\ PromotionRule(r.intermediateSource) = MustNotPromoteRule
        /\ r.constraintFailure


\* The replica tasks of r that are appending to replicasStartedReplication.
Appending(r) == {t \in Tablets : r.task[t] = "locked"}

\* C31: at most one replica task at a time appends to the list of accepted
\* replicas, the list holds exactly the tablets whose task has appended, and
\* when the caller has read the list every replica task had finished.
C31_ListNeverSharedUnlocked ==
  \A c \in Callers :
    LET r == run[c]
    IN  /\ Cardinality(Appending(r)) <= 1
        /\ r.replicasStartedReplication = {t \in Tablets : r.task[t] = "ok"}
        /\ r.listRead => r.listReadUnfinished = {}
        /\ r.listReadUnfinished = {}

\* The caller has read a list to which two replica tasks had appended.
C31_Witness ==
  \E c \in Callers :
    /\ run[c].listRead
    /\ Cardinality(run[c].replicasStartedReplication) = 2

\* A replica task holds replicaMutex while another task's SetMaster has
\* succeeded and waits for the mutex.
C31_ContentionReached ==
  \E c \in Callers :
    /\ Appending(run[c]) # {}
    /\ \E t \in Tablets : run[c].task[t] = "inflight" /\ ~run[c].replCancelled


\* The SetMaster by which t accepted the new primary of the current call of
\* reparentReplicas.
AcceptedSetMaster(r, t) ==
  [tablet |-> t, source |-> r.rrPrimary,
   forceStart |-> (t \in r.statusMap /\ tablets[t].running), phase |-> r.phase]

\* C32: the replica tasks and the primary-side step run in either order, and
\* a failure of the primary-side step takes nothing back: in the step that
\* fails it, and in every step after it, the tablets that had accepted
\* SetMaster stay accepted with their SetMaster on record, and the only RPC
\* issued is a SetMaster of a replica task that had not started, naming the
\* same source.
C32_AcceptedSurvivesPrimaryFailure ==
  [][\A c \in Callers :
       run'[c].primaryFailed =>
         /\ Accepted(run[c]) \subseteq Accepted(run'[c])
         /\ \A t \in Accepted(run[c]) : AcceptedSetMaster(run'[c], t) \in run'[c].setMasters
         /\ run[c].setMasters \subseteq run'[c].setMasters
         /\ \A m \in run'[c].setMasters \ run[c].setMasters :
              m.source = run'[c].rrPrimary /\ m.phase = run'[c].phase
         /\ run[c].primaryFailed =>
              /\ run'[c].promotes = run[c].promotes
              /\ run'[c].journals = run[c].journals
              /\ run'[c].masterPositions = run[c].masterPositions]_vars

\* A replica accepted SetMaster, then the journal write on the primary
\* failed, and the call has returned the error.
C32_Witness ==
  \E c \in Callers :
    LET r == run[c]
    IN  /\ r.primaryFailed
        /\ r.phase = "final"
        /\ r.journals # {}
        /\ r.pc = "done"
        /\ Accepted(r) # {}
        /\ \A t \in Accepted(r) : AcceptedSetMaster(r, t) \in r.setMasters

\* A replica has accepted SetMaster while the journal row is not written.
C32_ReplicaFirstReached ==
  \E c \in Callers :
    /\ run[c].rrpc = "PopulateReparentJournal"
    /\ run[c].journals = {}
    /\ Accepted(run[c]) # {}

\* The journal row is written while no replica has been sent SetMaster, and
\* replica tasks are still to run.
C32_JournalFirstReached ==
  \E c \in Callers :
    /\ run[c].rrpc = "select"
    /\ run[c].journals # {}
    /\ \E t \in Tablets : run[c].task[t] = "spawned"
    /\ \A t \in Tablets : run[c].task[t] \in {"none", "spawned"}


\* C33: the tablet that the final selection returns is one of the valid
\* candidates, the tablets that passed the errant filter and the type
\* restriction.
C33_BetterCandidateIsValidCandidate ==
  \A c \in Callers :
    run[c].betterCandidate # None => run[c].betterCandidate \in run[c].validCandidates

\* The final selection returned a tablet that the filter had dropped, and
\* the run promoted it and returned success.
C33_FilteredTabletPromotedReached ==
  \E c \in Callers :
    LET r == run[c]
    IN  /\ Succeeded(r)
        /\ r.betterCandidate \notin r.validCandidates
        /\ r.promotes = << r.betterCandidate >>
        /\ ~r.constraintFailure


\* C34: a run issues PromoteReplica at most once and PopulateReparentJournal
\* at most once; a journal write was issued in the final reparent, after a
\* PromoteReplica that succeeded, on the promoted tablet and naming it as the
\* new primary; and when PromoteReplica has failed the run has returned with
\* no journal write, no MasterPosition and no SetMaster of the final reparent.
C34_OnePromoteOneJournal ==
  \A c \in Callers :
    LET r == run[c]
    IN  /\ Len(r.promotes) <= 1
        /\ r.journalCalls <= 1
        /\ r.journalCalls = Cardinality(r.journals)
        /\ \A j \in r.journals :
             /\ r.promotes = << j.tablet >>
             /\ j.newPrimary = j.tablet
             /\ ~r.promoteFailed
             /\ StepsAmong(r, {"PromoteReplica", "promoteNewPrimary"}) =
                  << "PromoteReplica", "promoteNewPrimary" >>
        /\ r.promoteFailed =>
             /\ Returned(r)
             /\ LastStep(r) = "PromoteReplica"
             /\ r.journals = {}
             /\ \A m \in r.setMasters : m.phase = "intermediate"
             /\ \A m \in r.masterPositions : m.phase = "intermediate"

\* The journal row was written on the promoted tablet after an intermediate
\* reparent to another tablet.
C34_Witness ==
  \E c \in Callers :
    LET r == run[c]
    IN  /\ r.journalCalls = 1
        /\ r.promotes # <<>>
        /\ r.promotes[1] # r.intermediateSource
        /\ \E m \in r.setMasters : m.phase = "intermediate"

\* PromoteReplica failed after an intermediate reparent and the call has
\* returned.
C34_PromoteFailedReached ==
  \E c \in Callers :
    /\ run[c].promoteFailed
    /\ run[c].pc = "done"
    /\ run[c].setMasters # {}


\* promoteNewPrimary of r has returned success: PromoteReplica succeeded and
\* the final reparentReplicas returned no error.
FinalPromoteSucceeded(r) ==
  /\ r.promotes # <<>> /\ ~r.promoteFailed
  /\ r.phase = "final" /\ r.rrpc = "returned" /\ r.rrErr = "nil"

\* The final reparentReplicas of r has returned an error after PromoteReplica
\* had succeeded.
FinalReparentFailed(r) ==
  /\ r.promotes # <<>> /\ ~r.promoteFailed
  /\ r.phase = "final" /\ r.rrpc = "returned" /\ r.rrErr # "nil"

\* C35: the event's NewPrimary is set iff the final promote step has returned
\* success, and it is then the tablet PromoteReplica was issued on; when the
\* final reparentReplicas has failed after a successful PromoteReplica the run
\* has returned an error with NewPrimary unset, and nothing was issued that
\* takes the promotion back: the one PromoteReplica stands and every RPC of
\* the final reparent names the promoted tablet.
C35_EventNewPrimary ==
  \A c \in Callers :
    LET r == run[c]
    IN  /\ r.evNewPrimary # None <=> FinalPromoteSucceeded(r)
        /\ r.evNewPrimary # None => r.promotes = << r.evNewPrimary >>
        /\ FinalReparentFailed(r) =>
             /\ Returned(r)
             /\ r.err # "nil"
             /\ r.err \in {r.rrErr, ErrUndo}
             /\ r.evNewPrimary = None
             /\ Len(r.promotes) = 1
             /\ \A m \in r.setMasters : m.phase = "final" => m.source = r.promotes[1]
             /\ \A m \in r.masterPositions : m.phase = "final" => m.tablet = r.promotes[1]
             /\ r.pc = "done" => r.counted = "failure"

\* The final reparentReplicas failed because every replica refused the
\* promoted tablet, and the call has returned without NewPrimary.
C35_Witness ==
  \E c \in Callers :
    LET r == run[c]
    IN  /\ FinalReparentFailed(r)
        /\ ~r.primaryFailed
        /\ r.pc = "done"
        /\ r.evNewPrimary = None

\* NewPrimary is set in a run that returned success.
C35_SetOnSuccessReached ==
  \E c \in Callers :
    /\ Succeeded(run[c])
    /\ run[c].pc = "done"
    /\ run[c].evNewPrimary # None

\* NewPrimary is set to the previous primary in a run that returned the
\* constraint failure.
C35_SetOnCompensationReached ==
  \E c \in Callers :
    /\ run[c].pc = "done"
    /\ run[c].err = ErrConstraint
    /\ run[c].evNewPrimary = run[c].prevPrimary


\* C36: a call of reparentReplicas that had no replica task to start and
\* whose primary-side step succeeded has returned an error, and so has the
\* run.
C36_ZeroReplicasFail ==
  \A c \in Callers :
    LET r == run[c]
    IN  (r.rrpc = "returned" /\ r.numReplicas = 0 /\ ~r.primaryFailed) =>
          r.rrErr # "nil" /\ r.err # "nil"

\* A run whose only tablet outside IgnoreReplicas is the promoted one has
\* returned success, with the journal row written and no SetMaster issued.
C36_ZeroReplicasSucceedReached ==
  \E c \in Callers :
    LET r == run[c]
    IN  /\ Succeeded(r)
        /\ r.pc = "done"
        /\ r.numReplicas = 0
        /\ r.promotes # <<>>
        /\ r.journals # {}
        /\ r.setMasters = {}
        /\ r.counted = "success"


\* C37: every call of reparentReplicas returns, every replica task it
\* started finishes, and the all-done signal of every call fires.
C37_ReparentReplicasReturns ==
  \A c \in Callers :
    /\ (run[c].pc = "reparentReplicas") ~> (run[c].pc # "reparentReplicas")
    /\ \A t \in Tablets : (run[c].task[t] \notin Finished) ~> (run[c].task[t] \in Finished)
    /\ (run[c].rrpc # "idle" /\ ~run[c].allReplicasDone) ~> run[c].allReplicasDone

\* A call that does not wait for every replica is at its select with the
\* first-success and the all-done signals both fired, one replica accepted
\* and one failed.
C37_Witness ==
  \E c \in Callers :
    LET r == run[c]
    IN  /\ r.pc = "reparentReplicas" /\ r.rrpc = "select"
        /\ ~waitForAllReplicas(r)
        /\ r.replSuccess /\ r.allReplicasDone
        /\ \E t \in Tablets : r.task[t] = "ok"
        /\ \E t \in Tablets : r.task[t] = "err"

\* A call with no replica task has returned.
C37_ZeroReplicasReached ==
  \E c \in Callers :
    run[c].rrpc = "returned" /\ run[c].numReplicas = 0 /\ run[c].allReplicasDone

\* A call that waits for every replica has returned after every replica
\* task failed.
C37_AllFailedReached ==
  \E c \in Callers :
    LET r == run[c]
    IN  /\ r.rrpc = "returned" /\ waitForAllReplicas(r) /\ ~r.primaryFailed
        /\ r.numReplicas = 2 /\ r.recErrors = 2

====
